---------------------------- MODULE Spec2Model ----------------------------
(***************************************************************************)
(* Session discovery and status inference of agent-manager-x               *)
(* (src-tauri/src): the throttled process snapshot, the three agent        *)
(* detectors, deduplication by pid and the facade get_all_sessions.        *)
(*                                                                         *)
(* Conventions.  Option<T> is a sequence: None is << >>, Some(x) is <<x>>. *)
(* A path or a directory name is the sequence of its characters, so that   *)
(* the path <-> name encoding is computed and not assumed.  Times are in   *)
(* milliseconds in the refresh model and in seconds in the poll model.     *)
(***************************************************************************)
EXTENDS Integers, Sequences, FiniteSets, TLC

VARIABLES
    \* process/system.rs
    now,              \* the monotonic clock (ms)
    last_refresh,     \* LAST_PROCESS_REFRESH_AT : Option<Instant>
    snapshot,         \* generation of the OS table held by SYSTEM
    os_gen,           \* generation of the live OS process table
    refresh_log,      \* history: the instants of the real refreshes
    last_call,        \* history: the last refresh_processes call
    \* agent/mod.rs, session/parser/sessions.rs
    procs,            \* the OS processes of the poll's snapshot
    pc,               \* position of the facade in get_all_sessions
    run,              \* number of the current evaluation
    found,            \* per detector: the result of find_processes
    all_sessions,     \* all_sessions of get_all_sessions
    responses,        \* the SessionsResponse of each finished evaluation
    previous_status,  \* PREVIOUS_STATUS : session id -> status
    status_updates,   \* history: each insert into PREVIOUS_STATUS, and
                      \* whether the STATUS TRANSITION warning was logged
    \* pure functions under test
    dd_in, dd_out,
    st_in, st_out,
    \* a function evaluated on an input: the input, the latest result and,
    \* when it is evaluated again, the result before
    fn_in, fn_out, fn_prev,
    \* the three process-wide mutexes and the threads calling the facade
    holder,           \* per mutex: the thread holding its guard, 0 when free
    threads           \* per thread: its position in get_all_sessions

refreshVars == <<now, last_refresh, snapshot, os_gen, refresh_log, last_call>>
pollVars == <<procs, pc, run, found, all_sessions, responses, previous_status,
             status_updates>>
dedupeVars == <<dd_in, dd_out>>
statusVars == <<st_in, st_out>>
callVars == <<fn_in, fn_out, fn_prev>>
lockVars == <<holder, threads>>
vars == <<refreshVars, pollVars, dedupeVars, statusVars, callVars, lockVars>>

None == << >>
Some(x) == <<x>>
IsSome(o) == Len(o) = 1
Unwrap(o) == o[1]

Idle0 == "unused"
RefreshUnused ==
    /\ now = 0 /\ last_refresh = None /\ snapshot = 0 /\ os_gen = 0
    /\ refresh_log = << >> /\ last_call = None
PollUnused ==
    /\ procs = << >> /\ pc = Idle0 /\ run = 0 /\ found = << >>
    /\ all_sessions = << >> /\ responses = << >> /\ previous_status = << >>
    /\ status_updates = << >>
DedupeUnused == dd_in = << >> /\ dd_out = None
StatusUnused == st_in = None /\ st_out = None
CallUnused == fn_in = None /\ fn_out = None /\ fn_prev = None
LockUnused == holder = << >> /\ threads = << >>

(***************************************************************************)
(* 1. Process snapshot provider (process/system.rs)                        *)
(***************************************************************************)
MIN_PROCESS_REFRESH_INTERVAL == 750

\* Bounds of the refresh model.
MaxNow == 3000
MaxOsGen == 2
TickSteps == {250, 500, 1000}
Detectors == {"Claude", "Codex", "OpenCode"}

\* A plausible slip: the comparison admits the boundary instant.
ShouldRefreshInclusive(previous, t) ==
    ~(IsSome(previous) /\ t - Unwrap(previous) <= MIN_PROCESS_REFRESH_INTERVAL)

\* match *last_refresh { Some(previous) if previous.elapsed() < MIN => false, _ => true }
ShouldRefresh(previous, t) ==
    ~(IsSome(previous) /\ t - Unwrap(previous) < MIN_PROCESS_REFRESH_INTERVAL)

\* refresh_processes(system), called by the process filter of `caller`.
RefreshProcesses(caller) ==
    LET should_refresh == ShouldRefresh(last_refresh, now) IN
    /\ last_refresh' = IF should_refresh THEN Some(now) ELSE last_refresh
    /\ snapshot' = IF should_refresh THEN os_gen ELSE snapshot
    /\ refresh_log' = IF should_refresh THEN Append(refresh_log, now) ELSE refresh_log
    /\ last_call' = Some([caller |-> caller, at |-> now, refreshed |-> should_refresh,
                          log_before |-> refresh_log,
                          last_refresh_before |-> last_refresh,
                          snapshot_before |-> snapshot])
    /\ UNCHANGED <<now, os_gen>>

\* Time passes between two calls.
Tick ==
    /\ \E d \in TickSteps : now + d <= MaxNow /\ now' = now + d
    /\ UNCHANGED <<last_refresh, snapshot, os_gen, refresh_log, last_call>>

\* The operating system starts or ends a process.
OsChange ==
    /\ os_gen < MaxOsGen
    /\ os_gen' = os_gen + 1
    /\ UNCHANGED <<now, last_refresh, snapshot, refresh_log, last_call>>

RefreshInit ==
    /\ now = 0 /\ last_refresh = None /\ snapshot = 0 /\ os_gen = 0
    /\ refresh_log = << >> /\ last_call = None
    /\ PollUnused /\ DedupeUnused /\ StatusUnused /\ CallUnused /\ LockUnused

RefreshNext ==
    \/ (\E caller \in Detectors : RefreshProcesses(caller))
           /\ UNCHANGED <<pollVars, dedupeVars, statusVars, callVars, lockVars>>
    \/ Tick /\ UNCHANGED <<pollVars, dedupeVars, statusVars, callVars, lockVars>>
    \/ OsChange /\ UNCHANGED <<pollVars, dedupeVars, statusVars, callVars, lockVars>>

SpecRefresh == RefreshInit /\ [][RefreshNext]_vars

\* C1: a refresh_processes call by any detector refreshes iff no real
\* refresh happened in the preceding 750 ms (the first call always does);
\* two real refreshes are at least 750 ms apart; a throttled call leaves the
\* snapshot and the last-refresh timestamp as they were, so it does not
\* extend the cooldown.
C1_Throttle ==
    /\ \A i, j \in 1..Len(refresh_log) :
          i < j => refresh_log[j] - refresh_log[i] >= MIN_PROCESS_REFRESH_INTERVAL
    /\ IsSome(last_call) =>
          LET c == Unwrap(last_call) IN
          /\ c.refreshed <=>
                (\A k \in 1..Len(c.log_before) :
                     c.at - c.log_before[k] >= MIN_PROCESS_REFRESH_INTERVAL)
          /\ ~c.refreshed =>
                /\ last_refresh = c.last_refresh_before
                /\ snapshot = c.snapshot_before
                /\ refresh_log = c.log_before
          /\ c.refreshed =>
                /\ last_refresh = Some(c.at)
                /\ refresh_log = Append(c.log_before, c.at)

\* C1 witness: a throttled call by one detector, then at exactly 750 ms after
\* the last real refresh a call by another detector that refreshes again.
C1_Witness ==
    /\ Len(refresh_log) >= 2
    /\ refresh_log[Len(refresh_log)] - refresh_log[Len(refresh_log) - 1]
           = MIN_PROCESS_REFRESH_INTERVAL
    /\ IsSome(last_call)
    /\ ~Unwrap(last_call).refreshed
    /\ Unwrap(last_call).caller = "OpenCode"
    /\ os_gen > snapshot

(***************************************************************************)
(* 2. Session status (session/model.rs, session/status.rs)                 *)
(***************************************************************************)
SessionStatus == {"Waiting", "Processing", "Thinking", "Idle", "Stale"}

\* A plausible slip: every status has a priority of its own.
status_sort_priority_strict(status) ==
    CASE status = "Thinking" -> 0
      [] status = "Processing" -> 1
      [] status = "Waiting" -> 2
      [] status = "Idle" -> 3
      [] status = "Stale" -> 4

\* status_sort_priority: lower is more active; Thinking and Processing tie.
status_sort_priority(status) ==
    CASE status = "Thinking" -> 0
      [] status = "Processing" -> 0
      [] status = "Waiting" -> 1
      [] status = "Idle" -> 2
      [] status = "Stale" -> 3

\* last_activity_at is a String and is compared as one.  A timestamp read
\* from a store is Some(seconds); a session file without any timestamp gives
\* the text "Unknown", which sorts after every timestamp ('U' > '0'..'9').
\* ActivityCmp(a, b) is a.cmp(&b): -1, 0 or 1.
ActivityCmp(a, b) ==
    CASE IsSome(a) /\ IsSome(b) ->
             IF Unwrap(a) < Unwrap(b) THEN -1 ELSE IF Unwrap(a) > Unwrap(b) THEN 1 ELSE 0
      [] IsSome(a) /\ ~IsSome(b) -> -1
      [] ~IsSome(a) /\ IsSome(b) -> 1
      [] OTHER -> 0

\* Session ids are compared as strings too; the ids of the model are "s1".."s9"
\* and similar, ordered by IdRank.
IdOrder == <<"c1", "c2", "c3", "codex-1", "codex-2", "codex-3", "codex-4",
             "o1", "o2", "o3", "s1", "s2", "s3">>
IdRank(id) == CHOOSE i \in 1..Len(IdOrder) : IdOrder[i] = id

(***************************************************************************)
(* 3. Deduplication by pid (session/parser/sessions.rs)                    *)
(***************************************************************************)
\* A plausible slip: the timestamp comparison is dropped.
is_better_session_no_activity(candidate, current) ==
    LET candidate_priority == status_sort_priority(candidate.status)
        current_priority == status_sort_priority(current.status)
    IN  IF candidate_priority # current_priority
        THEN candidate_priority < current_priority
        ELSE CASE IsSome(candidate.last_message) /\ ~IsSome(current.last_message) -> TRUE
               [] ~IsSome(candidate.last_message) /\ IsSome(current.last_message) -> FALSE
               [] OTHER -> IdRank(candidate.id) > IdRank(current.id)

is_better_session(candidate, current) ==
    LET candidate_priority == status_sort_priority(candidate.status)
        current_priority == status_sort_priority(current.status)
    IN  IF candidate_priority # current_priority
        THEN candidate_priority < current_priority
        ELSE IF candidate.last_activity_at # current.last_activity_at
        THEN ActivityCmp(candidate.last_activity_at, current.last_activity_at) = 1
        ELSE CASE IsSome(candidate.last_message) /\ ~IsSome(current.last_message) -> TRUE
               [] ~IsSome(candidate.last_message) /\ IsSome(current.last_message) -> FALSE
               [] OTHER -> IdRank(candidate.id) > IdRank(current.id)

\* The loop of dedupe_sessions_by_pid: best_by_pid after the first n sessions,
\* a function from the pids seen to the session kept for each.
RECURSIVE BestByPid(_, _)
BestByPid(sessions, n) ==
    IF n = 0 THEN << >>
    ELSE LET best == BestByPid(sessions, n - 1)
             session == sessions[n]
         IN  IF session.pid \notin DOMAIN best
             THEN [p \in DOMAIN best \cup {session.pid} |->
                      IF p = session.pid THEN session ELSE best[p]]
             ELSE IF is_better_session(session, best[session.pid])
             THEN [best EXCEPT ![session.pid] = session]
             ELSE best

\* All orders in which a set can be laid out as a sequence (HashMap iteration).
Orders(S) ==
    {o \in [1..Cardinality(S) -> S] : \A i, j \in DOMAIN o : i # j => o[i] # o[j]}

\* dedupe_sessions_by_pid(sessions) with best_by_pid.into_values() visited in
\* the order `order` of its keys.
dedupe_sessions_by_pid(sessions, order) ==
    LET best == BestByPid(sessions, Len(sessions))
    IN  [i \in 1..Len(order) |-> best[order[i]]]

PidsOf(sessions) == {sessions[i].pid : i \in 1..Len(sessions)}

\* Bounds and input sets of the deduplication model.
MaxDedupeLen == 3
DedupePids == {1, 2}
DedupeIds == {"s1", "s2"}
DedupeStatuses == {"Thinking", "Processing", "Waiting"}
DedupeActivity == {None, Some(10), Some(20)}
DedupeMessages == {None, Some("m")}
DedupeSessions ==
    [id : DedupeIds, pid : DedupePids, status : DedupeStatuses,
     last_activity_at : DedupeActivity, last_message : DedupeMessages]

Permute(seq, perm) == [i \in 1..Len(seq) |-> seq[perm[i]]]

\* One call of dedupe_sessions_by_pid on dd_in.  best_shuffled records, for
\* comparison, best_by_pid for every order of the same sessions.
DedupeCall ==
    /\ dd_out = None
    /\ \E order \in Orders(PidsOf(dd_in)) :
          dd_out' = Some([kept |-> dedupe_sessions_by_pid(dd_in, order),
                          best_shuffled |->
                              {BestByPid(Permute(dd_in, perm), Len(dd_in)) :
                                   perm \in Orders(1..Len(dd_in))}])
    /\ UNCHANGED dd_in

DedupeInit ==
    /\ \E n \in 1..MaxDedupeLen : dd_in \in [1..n -> DedupeSessions]
    /\ dd_out = None
    /\ RefreshUnused /\ PollUnused /\ StatusUnused /\ CallUnused /\ LockUnused

DedupeNext == DedupeCall /\ UNCHANGED <<refreshVars, pollVars, statusVars, callVars, lockVars>>

SpecDedupe == DedupeInit /\ [][DedupeNext]_vars

\* The order of criteria, written out on the fields: s beats w.
C7_Beats(s, w) ==
    LET ps == status_sort_priority(s.status)
        pw == status_sort_priority(w.status)
    IN  \/ ps < pw
        \/ /\ ps = pw
           /\ ActivityCmp(s.last_activity_at, w.last_activity_at) = 1
        \/ /\ ps = pw
           /\ ActivityCmp(s.last_activity_at, w.last_activity_at) = 0
           /\ IsSome(s.last_message) /\ ~IsSome(w.last_message)
        \/ /\ ps = pw
           /\ ActivityCmp(s.last_activity_at, w.last_activity_at) = 0
           /\ IsSome(s.last_message) = IsSome(w.last_message)
           /\ IdRank(s.id) > IdRank(w.id)

\* C7: dedupe_sessions_by_pid keeps, for every pid of the input, exactly one
\* session; it is one of the input sessions of that pid, and no input session
\* of that pid beats it by status priority, then newer activity, then
\* presence of a last message, then higher session id.
C7_DedupeKeepsBest ==
    IsSome(dd_out) =>
        LET kept == Unwrap(dd_out).kept IN
        /\ {kept[i].pid : i \in 1..Len(kept)} = PidsOf(dd_in)
        /\ Len(kept) = Cardinality(PidsOf(dd_in))
        /\ \A i \in 1..Len(kept) :
              /\ \E k \in 1..Len(dd_in) : dd_in[k] = kept[i]
              /\ \A k \in 1..Len(dd_in) :
                    dd_in[k].pid = kept[i].pid => ~C7_Beats(dd_in[k], kept[i])

\* C7 witness: three candidates of one pid tie on priority; the newest one is
\* kept although it comes second and has the lowest id.
C7_Witness ==
    /\ IsSome(dd_out)
    /\ Len(dd_in) = MaxDedupeLen
    /\ \A k \in 1..Len(dd_in) : dd_in[k].pid = 1
    /\ dd_in[1].status = "Thinking" /\ dd_in[2].status = "Processing"
    /\ dd_in[3].status = "Processing"
    /\ dd_in[1].last_activity_at = Some(10) /\ dd_in[2].last_activity_at = Some(20)
    /\ dd_in[3].last_activity_at = Some(10)
    /\ dd_in[1].id = "s2" /\ dd_in[2].id = "s1" /\ dd_in[3].id = "s2"
    /\ Unwrap(dd_out).kept = <<dd_in[2]>>

\* C8: the session kept for each pid is the same for every order of the
\* candidate sessions.
C8_DedupeCommutative ==
    IsSome(dd_out) => Cardinality(Unwrap(dd_out).best_shuffled) = 1

(***************************************************************************)
(* 4. Claude status rules (session/status.rs, parser/session_parser.rs)    *)
(***************************************************************************)
\* A plausible slip: staleness is tested before file activity is considered.
determine_status_stale_first(msg_type, has_tool_use, has_tool_result, is_local_command, is_interrupted, file_recently_modified, message_is_stale) ==
    IF message_is_stale
    THEN IF msg_type \in {Some("assistant"), Some("user")} THEN "Waiting" ELSE "Idle"
    ELSE CASE msg_type = Some("assistant") ->
                  IF file_recently_modified THEN "Processing" ELSE "Waiting"
           [] msg_type = Some("user") ->
                  IF is_local_command \/ is_interrupted THEN "Waiting"
                  ELSE IF file_recently_modified THEN "Thinking" ELSE "Waiting"
           [] OTHER -> IF file_recently_modified THEN "Thinking" ELSE "Idle"

\* A plausible slip: a stale message of an unknown type is reported Waiting.
determine_status_stale_waiting(msg_type, has_tool_use, has_tool_result, is_local_command, is_interrupted, file_recently_modified, message_is_stale) ==
    IF message_is_stale /\ ~file_recently_modified
    THEN "Waiting"
    ELSE CASE msg_type = Some("assistant") ->
                  IF file_recently_modified THEN "Processing" ELSE "Waiting"
           [] msg_type = Some("user") ->
                  IF is_local_command \/ is_interrupted THEN "Waiting"
                  ELSE IF file_recently_modified THEN "Thinking" ELSE "Waiting"
           [] OTHER -> IF file_recently_modified THEN "Thinking" ELSE "Idle"

\* A plausible slip: the local-command and interrupted test comes after the
\* file-activity test of a user message.
determine_status_local_late(msg_type, has_tool_use, has_tool_result, is_local_command, is_interrupted, file_recently_modified, message_is_stale) ==
    IF message_is_stale /\ ~file_recently_modified
    THEN IF msg_type \in {Some("assistant"), Some("user")} THEN "Waiting" ELSE "Idle"
    ELSE CASE msg_type = Some("assistant") ->
                  IF file_recently_modified THEN "Processing" ELSE "Waiting"
           [] msg_type = Some("user") ->
                  IF file_recently_modified THEN "Thinking" ELSE "Waiting"
           [] OTHER -> IF file_recently_modified THEN "Thinking" ELSE "Idle"

\* A plausible slip: an assistant message without tool-use is always Waiting.
determine_status_text_waiting(msg_type, has_tool_use, has_tool_result, is_local_command, is_interrupted, file_recently_modified, message_is_stale) ==
    IF message_is_stale /\ ~file_recently_modified
    THEN IF msg_type \in {Some("assistant"), Some("user")} THEN "Waiting" ELSE "Idle"
    ELSE CASE msg_type = Some("assistant") ->
                  IF has_tool_use /\ file_recently_modified THEN "Processing" ELSE "Waiting"
           [] msg_type = Some("user") ->
                  IF is_local_command \/ is_interrupted THEN "Waiting"
                  ELSE IF file_recently_modified THEN "Thinking" ELSE "Waiting"
           [] OTHER -> IF file_recently_modified THEN "Thinking" ELSE "Idle"

\* determine_status(msg_type, has_tool_use, has_tool_result, is_local_command,
\*                  is_interrupted, file_recently_modified, message_is_stale):
\* the precedence table, first match wins.
determine_status(msg_type, has_tool_use, has_tool_result, is_local_command, is_interrupted, file_recently_modified, message_is_stale) ==
    IF message_is_stale /\ ~file_recently_modified
    THEN IF msg_type \in {Some("assistant"), Some("user")} THEN "Waiting" ELSE "Idle"
    ELSE CASE msg_type = Some("assistant") ->
                  IF has_tool_use
                  THEN IF file_recently_modified THEN "Processing" ELSE "Waiting"
                  ELSE IF file_recently_modified THEN "Processing" ELSE "Waiting"
           [] msg_type = Some("user") ->
                  IF is_local_command \/ is_interrupted THEN "Waiting"
                  ELSE IF has_tool_result
                  THEN IF file_recently_modified THEN "Thinking" ELSE "Waiting"
                  ELSE IF file_recently_modified THEN "Thinking" ELSE "Waiting"
           [] OTHER -> IF file_recently_modified THEN "Thinking" ELSE "Idle"

RECENT_FILE_SECS == 3
STALENESS_THRESHOLD_SECS == 30
IDLE_THRESHOLD_SECS == 300
STALE_THRESHOLD_SECS == 600

\* file_age_secs.map(|age| age < 3.0).unwrap_or(false); duration_since fails
\* for a modification time in the future.
FileRecentlyModified(modified, t) ==
    modified <= t /\ t - modified < RECENT_FILE_SECS

\* Age of an RFC 3339 timestamp compared with 30 s; no timestamp is stale.
MessageIsStale(timestamp, t) ==
    IF IsSome(timestamp) THEN t - Unwrap(timestamp) > STALENESS_THRESHOLD_SECS ELSE TRUE

\* A plausible slip: the thresholds are exclusive.
EscalateByAgeExclusive(status, timestamp, t) ==
    IF status \in {"Waiting", "Idle"} /\ IsSome(timestamp)
    THEN IF t - Unwrap(timestamp) > STALE_THRESHOLD_SECS THEN "Stale"
         ELSE IF t - Unwrap(timestamp) > IDLE_THRESHOLD_SECS THEN "Idle"
         ELSE status
    ELSE status

\* Waiting for 5+ minutes -> Idle, 10+ minutes -> Stale.
EscalateByAge(status, timestamp, t) ==
    IF status \in {"Waiting", "Idle"} /\ IsSome(timestamp)
    THEN IF t - Unwrap(timestamp) >= STALE_THRESHOLD_SECS THEN "Stale"
         ELSE IF t - Unwrap(timestamp) >= IDLE_THRESHOLD_SECS THEN "Idle"
         ELSE status
    ELSE status

\* The status parse_session_file computes before the time-based upgrade.
BaseStatus(file, t) ==
    determine_status(file.msg_type, file.has_tool_use, file.has_tool_result,
                     file.is_local_command, file.is_interrupted,
                     FileRecentlyModified(file.modified, t),
                     MessageIsStale(file.timestamp, t))

\* A session counts as background when it has no project context: its path
\* is the root and it has no message text.
RootPath == <<"/">>
is_background_session(project_path, last_message) ==
    IF project_path # RootPath THEN FALSE ELSE ~IsSome(last_message)

\* parse_session_file(jsonl_path, project_path, pid, cpu_usage, agent_type) at
\* time t: None for a file without a session id.
parse_session_file(file, project_path, pid, cpu_usage, agent_type, t) ==
    IF ~IsSome(file.session_id) THEN None
    ELSE Some([id |-> Unwrap(file.session_id),
               agent_type |-> agent_type,
               project_path |-> project_path,
               status |-> EscalateByAge(BaseStatus(file, t), file.timestamp, t),
               last_message |-> file.last_message,
               last_activity_at |-> file.timestamp,
               pid |-> pid,
               cpu_usage |-> cpu_usage,
               active_subagent_count |-> 0,
               is_background |-> is_background_session(project_path, file.last_message)])

\* Inputs of the status model.
StatusNow == 1000
StatusMsgTypes == {None, Some("assistant"), Some("user"), Some("system")}
StatusModified == {StatusNow - 1, StatusNow - 10}
StatusAges == {10, 30, 31, 60, 299, 300, 400, 599, 600, 700}
StatusTimestamps == {None} \cup {Some(StatusNow - age) : age \in StatusAges}
StatusFiles ==
    [session_id : {Some("s1")}, msg_type : StatusMsgTypes,
     has_tool_use : BOOLEAN, has_tool_result : BOOLEAN,
     is_local_command : BOOLEAN, is_interrupted : BOOLEAN,
     modified : StatusModified, timestamp : StatusTimestamps,
     last_message : {Some("m")}]

\* With every input but message_is_stale as for the file `file`.
StatusWith(file, recent, stale) ==
    determine_status(file.msg_type, file.has_tool_use, file.has_tool_result,
                     file.is_local_command, file.is_interrupted, recent, stale)

\* One call of parse_session_file on the file st_in.
StatusCall ==
    /\ st_out = None
    /\ LET file == Unwrap(st_in)
           recent == FileRecentlyModified(file.modified, StatusNow)
           stale == MessageIsStale(file.timestamp, StatusNow)
       IN  st_out' = Some([file_recently_modified |-> recent,
                           message_is_stale |-> stale,
                           base |-> BaseStatus(file, StatusNow),
                           base_if_stale |-> StatusWith(file, recent, TRUE),
                           base_if_fresh |-> StatusWith(file, recent, FALSE),
                           by_flags |-> [f \in BOOLEAN \X BOOLEAN |->
                                            StatusWith(file, f[1], f[2])],
                           session |-> parse_session_file(file, <<"/", "a">>, 1, 0,
                                                          "Claude", StatusNow)])
    /\ UNCHANGED st_in

StatusInit ==
    /\ \E file \in StatusFiles : st_in = Some(file)
    /\ st_out = None
    /\ RefreshUnused /\ PollUnused /\ DedupeUnused /\ CallUnused /\ LockUnused

StatusNext == StatusCall /\ UNCHANGED <<refreshVars, pollVars, dedupeVars, callVars, lockVars>>

SpecStatus == StatusInit /\ [][StatusNext]_vars

\* C9: when the message is stale and the file was not recently modified,
\* determine_status gives Waiting for type assistant or user and Idle for any
\* other type, whatever the tool-use, tool-result, local-command and
\* interrupted flags are.
C9_StaleShortCircuit ==
    IsSome(st_out) =>
        LET o == Unwrap(st_out)
            file == Unwrap(st_in)
        IN  (o.message_is_stale /\ ~o.file_recently_modified) =>
                o.base = IF file.msg_type \in {Some("assistant"), Some("user")}
                         THEN "Waiting" ELSE "Idle"

\* C9 witness: a stale assistant tool-use message in a file touched 10 s ago
\* is Waiting, and so is a stale user tool-result message; an unknown type is Idle.
C9_Witness ==
    /\ IsSome(st_out)
    /\ Unwrap(st_out).message_is_stale /\ ~Unwrap(st_out).file_recently_modified
    /\ Unwrap(st_in).msg_type = Some("system")
    /\ Unwrap(st_in).has_tool_use /\ Unwrap(st_in).is_interrupted
    /\ Unwrap(st_in).timestamp = Some(StatusNow - 60)
    /\ Unwrap(st_out).base = "Idle"

\* C10: when the file was recently modified, determine_status gives the same
\* status for a stale message as for a fresh one, for every type and flags.
C10_FileActivityFirst ==
    IsSome(st_out) =>
        LET o == Unwrap(st_out) IN
        o.file_recently_modified =>
            /\ o.base_if_stale = o.base_if_fresh
            /\ o.base = o.base_if_fresh

\* C10 witness: a stale user message in a just-touched file is Thinking.
C10_Witness ==
    /\ IsSome(st_out)
    /\ Unwrap(st_out).file_recently_modified /\ Unwrap(st_out).message_is_stale
    /\ Unwrap(st_in).msg_type = Some("user")
    /\ ~Unwrap(st_in).is_local_command /\ ~Unwrap(st_in).is_interrupted
    /\ Unwrap(st_out).base = "Thinking"

\* C11: a user message that is a local slash command or carries the
\* interrupted-request marker is Waiting, for both values of file recency and
\* of message staleness and whatever the tool-use and tool-result flags are.
C11_LocalCommandWaiting ==
    IsSome(st_out) =>
        LET o == Unwrap(st_out)
            file == Unwrap(st_in)
        IN  (file.msg_type = Some("user") /\ (file.is_local_command \/ file.is_interrupted)) =>
                /\ o.base = "Waiting"
                /\ \A f \in BOOLEAN \X BOOLEAN : o.by_flags[f] = "Waiting"

\* C11 witness: a fresh "/clear" carrying a tool result in a file touched 1 s ago.
C11_Witness ==
    /\ IsSome(st_out)
    /\ Unwrap(st_in).msg_type = Some("user")
    /\ Unwrap(st_in).is_local_command /\ ~Unwrap(st_in).is_interrupted
    /\ Unwrap(st_in).has_tool_result
    /\ Unwrap(st_out).file_recently_modified /\ ~Unwrap(st_out).message_is_stale
    /\ Unwrap(st_out).base = "Waiting"

\* The precedence table outside the staleness short-circuit, by type and recency.
C12_Table(msg_type, is_local_command, is_interrupted, recent) ==
    IF msg_type = Some("assistant") THEN (IF recent THEN "Processing" ELSE "Waiting")
    ELSE IF msg_type = Some("user")
    THEN (IF is_local_command \/ is_interrupted THEN "Waiting"
          ELSE IF recent THEN "Thinking" ELSE "Waiting")
    ELSE (IF recent THEN "Thinking" ELSE "Idle")

\* C12: when the message is not stale or the file was recently modified,
\* determine_status gives the table's status for the type and file recency,
\* with or without tool-use and tool-result; and it gives a status for every
\* input.
C12_PrecedenceTable ==
    IsSome(st_out) =>
        LET o == Unwrap(st_out)
            file == Unwrap(st_in)
        IN  /\ \A f \in BOOLEAN \X BOOLEAN : o.by_flags[f] \in SessionStatus
            /\ o.base \in SessionStatus
            /\ \A f \in BOOLEAN \X BOOLEAN :
                 ~(f[2] /\ ~f[1]) =>
                     o.by_flags[f] = C12_Table(file.msg_type, file.is_local_command,
                                               file.is_interrupted, f[1])
            /\ ~(o.message_is_stale /\ ~o.file_recently_modified) =>
                 o.base = C12_Table(file.msg_type, file.is_local_command,
                                    file.is_interrupted, o.file_recently_modified)

\* C12 witness: a fresh assistant message without tool-use in a file touched
\* 1 s ago is Processing.
C12_Witness ==
    /\ IsSome(st_out)
    /\ Unwrap(st_in).msg_type = Some("assistant")
    /\ ~Unwrap(st_in).has_tool_use
    /\ Unwrap(st_out).file_recently_modified /\ ~Unwrap(st_out).message_is_stale
    /\ Unwrap(st_out).base = "Processing"

\* C13: parse_session_file turns a base status of Waiting with a message of
\* age >= 600 s into Stale, of age in 300..599 s into Idle and leaves it
\* Waiting below 300 s; a base status of Thinking or Processing is kept.
C13_WaitingEscalation ==
    IsSome(st_out) =>
        LET o == Unwrap(st_out)
            file == Unwrap(st_in)
            status == Unwrap(o.session).status
        IN  /\ (o.base = "Waiting" /\ IsSome(file.timestamp)) =>
                 LET age == StatusNow - Unwrap(file.timestamp)
                 IN  status = IF age >= 600 THEN "Stale"
                              ELSE IF age >= 300 THEN "Idle"
                              ELSE "Waiting"
            /\ o.base \in {"Thinking", "Processing"} => status = o.base

\* C13 witness: an assistant text message exactly 600 s old in a file touched
\* 10 s ago: Waiting before the upgrade, Stale after it.
C13_Witness ==
    /\ IsSome(st_out)
    /\ Unwrap(st_in).msg_type = Some("assistant") /\ ~Unwrap(st_in).has_tool_use
    /\ Unwrap(st_in).modified = StatusNow - 10
    /\ Unwrap(st_in).timestamp = Some(StatusNow - 600)
    /\ Unwrap(st_out).base = "Waiting"
    /\ Unwrap(Unwrap(st_out).session).status = "Stale"

(***************************************************************************)
(* 5. Helpers on sequences                                                 *)
(***************************************************************************)
\* Vec::sort_by with the strict order Less: a stable sort.  Element i goes
\* behind every element that is less, and behind every earlier equal one.
SortBy(s, Less(_, _)) ==
    LET n == Len(s)
        pos(i) == 1 + Cardinality({j \in 1..n :
                          Less(s[j], s[i]) \/ (j < i /\ ~Less(s[i], s[j]))})
    IN  [k \in 1..n |-> s[CHOOSE i \in 1..n : pos(i) = k]]

RECURSIVE Flatten(_)
Flatten(seqs) == IF seqs = << >> THEN << >> ELSE Head(seqs) \o Flatten(Tail(seqs))

StartsWith(s, prefix) ==
    Len(prefix) <= Len(s) /\ SubSeq(s, 1, Len(prefix)) = prefix

SeqToSet(s) == {s[i] : i \in 1..Len(s)}

(***************************************************************************)
(* 6. Path to store-directory name (parser/path_conversion.rs)             *)
(***************************************************************************)
RECURSIVE ConvertChars(_, _)
ConvertChars(path, i) ==
    IF i > Len(path) THEN << >>
    ELSE IF path[i] = "/"
    THEN IF i + 1 <= Len(path) /\ path[i + 1] = "."
         THEN <<"-", "-">> \o ConvertChars(path, i + 2)
         ELSE <<"-">> \o ConvertChars(path, i + 1)
    ELSE <<path[i]>> \o ConvertChars(path, i + 1)

convert_path_to_dir_name(path) ==
    LET stripped == IF Len(path) > 0 /\ path[1] = "/" THEN Tail(path) ELSE path
    IN  <<"-">> \o ConvertChars(stripped, 1)

\* exact_dir_name.replace('_', "-")
ReplaceUnderscore(name) == [i \in 1..Len(name) |-> IF name[i] = "_" THEN "-" ELSE name[i]]

\* Store-directory name back to a path.  A string is a sequence of
\* characters; the folder names Projects and UnityProjects are written as one
\* element each, which stands for their letters.
\* str::split: the parts between the separators, empty parts included.
RECURSIVE SplitOn(_, _, _, _)
SplitOn(s, sep, i, current) ==
    IF i > Len(s) THEN <<current>>
    ELSE IF s[i] = sep THEN <<current>> \o SplitOn(s, sep, i + 1, << >>)
    ELSE SplitOn(s, sep, i + 1, Append(current, s[i]))

\* [&str]::join
RECURSIVE JoinWith(_, _)
JoinWith(parts, sep) ==
    IF parts = << >> THEN << >>
    ELSE IF Len(parts) = 1 THEN parts[1]
    ELSE parts[1] \o <<sep>> \o JoinWith(Tail(parts), sep)

IsProjectsFolder(part) == part = <<"Projects">> \/ part = <<"UnityProjects">>

\* The loop over project_parts: an empty part opens a hidden folder, whose
\* first part gets the dot and whose later parts are folders of their own;
\* before any hidden folder the parts are joined with dashes.
RECURSIVE ProjectSegments(_, _, _, _, _)
ProjectSegments(project_parts, i, in_hidden_folder, segments, current_segment) ==
    LET pushed == IF current_segment # << >> THEN Append(segments, current_segment) ELSE segments
    IN  IF i > Len(project_parts) THEN pushed
        ELSE LET part == project_parts[i]
             IN  IF part = << >>
                 THEN ProjectSegments(project_parts, i + 1, TRUE, pushed, << >>)
                 ELSE IF in_hidden_folder
                 THEN IF current_segment = << >>
                      THEN ProjectSegments(project_parts, i + 1, TRUE, segments, <<".">> \o part)
                      ELSE ProjectSegments(project_parts, i + 1, TRUE, pushed, part)
                 ELSE IF current_segment = << >>
                      THEN ProjectSegments(project_parts, i + 1, FALSE, segments, part)
                      ELSE ProjectSegments(project_parts, i + 1, FALSE, segments,
                                           current_segment \o <<"-">> \o part)

\* A plausible slip: the project parts are joined with dashes throughout,
\* a double dash is not read as a hidden folder.
convert_dir_name_to_path_plain(dir_name) ==
    LET name == IF Len(dir_name) > 0 /\ dir_name[1] = "-" THEN Tail(dir_name) ELSE dir_name
        parts == SplitOn(name, "-", 1, << >>)
        hits == {i \in 1..Len(parts) : IsProjectsFolder(parts[i])}
    IN  IF hits # {}
        THEN LET idx == CHOOSE i \in hits : \A j \in hits : i <= j
                 path_parts == SubSeq(parts, 1, idx)
                 project_parts == SubSeq(parts, idx + 1, Len(parts))
                 path == <<"/">> \o JoinWith(path_parts, "/")
             IN  IF project_parts # << >>
                 THEN path \o <<"/">> \o JoinWith(project_parts, "-")
                 ELSE path
        ELSE <<"/">> \o [i \in 1..Len(name) |-> IF name[i] = "-" THEN "/" ELSE name[i]]

convert_dir_name_to_path(dir_name) ==
    LET name == IF Len(dir_name) > 0 /\ dir_name[1] = "-" THEN Tail(dir_name) ELSE dir_name
        parts == SplitOn(name, "-", 1, << >>)
        hits == {i \in 1..Len(parts) : IsProjectsFolder(parts[i])}
    IN  IF hits # {}
        THEN LET idx == CHOOSE i \in hits : \A j \in hits : i <= j
                 path_parts == SubSeq(parts, 1, idx)
                 project_parts == SubSeq(parts, idx + 1, Len(parts))
                 path == <<"/">> \o JoinWith(path_parts, "/")
             IN  IF project_parts # << >>
                 THEN path \o <<"/">>
                      \o JoinWith(ProjectSegments(project_parts, 1, FALSE, << >>, << >>), "/")
                 ELSE path
        ELSE <<"/">> \o [i \in 1..Len(name) |-> IF name[i] = "-" THEN "/" ELSE name[i]]

(***************************************************************************)
(* 7. The snapshot and the stores of the poll model                        *)
(***************************************************************************)
\* Bounds and input sets.  A process is [agent, pid, cwd, cpu_usage,
\* active_session_file]; procs[pid] is None or Some(process).
MaxProcs == 2
PollNow == 1000
Pids == 1..MaxProcs
Agents == <<"Claude", "Codex", "OpenCode">>
CPU_OVERRIDE_THRESHOLD == 15
CpuUsages == {0, 50}
PathAB == <<"/", "a", "/", "b">>
PathADashB == <<"/", "a", "-", "b">>
PathAUnderB == <<"/", "a", "_", "b">>
Cwds == {None, Some(RootPath), Some(PathAB), Some(PathADashB), Some(PathAUnderB)}
ActiveFiles(agent) == IF agent = "OpenCode" THEN {None, Some("o2")} ELSE {None}
ProcessesOf(pid) ==
    UNION {[agent : {Agents[a]}, pid : {pid}, cwd : Cwds, cpu_usage : CpuUsages,
            active_session_file : ActiveFiles(Agents[a])] : a \in 1..Len(Agents)}

\* A Claude session file as extract_message_data and the file metadata show it.
ClaudeFile(path, sid, type, tool_use, modified, timestamp, message, subagent) ==
    [path |-> path, session_id |-> sid, msg_type |-> type, has_tool_use |-> tool_use,
     has_tool_result |-> FALSE, is_local_command |-> FALSE, is_interrupted |-> FALSE,
     modified |-> modified, timestamp |-> timestamp, last_message |-> message,
     subagent |-> subagent]

\* ~/.claude/projects: directory name -> its entries in read_dir order.
DefaultProjects ==
    {[name |-> <<"-", "a", "-", "b">>,
      entries |-> <<
         ClaudeFile("f2", Some("s2"), Some("user"), FALSE, PollNow - 20,
                    Some(PollNow - 400), Some("m2"), FALSE),
         ClaudeFile("f1", Some("s1"), Some("assistant"), TRUE, PollNow - 1,
                    Some(PollNow - 8), Some("m1"), FALSE),
         ClaudeFile("agent-1", Some("s1"), Some("assistant"), FALSE, PollNow - 5,
                    Some(PollNow - 5), Some("m"), TRUE)>>],
     [name |-> <<"-", "a", "_", "b">>,
      entries |-> <<
         ClaudeFile("f3", Some("s1"), Some("user"), FALSE, PollNow - 1,
                    Some(PollNow - 8), Some("m3"), FALSE)>>],
     [name |-> <<"-">>,
      entries |-> <<
         ClaudeFile("f4", Some("s3"), None, FALSE, PollNow - 50,
                    None, None, FALSE)>>]}

\* get_claude_projects_dirs: the default root, then the profile roots; the
\* "work" profile exists and is empty, the "personal" profile does not exist.
ClaudeProjectsDirs ==
    <<[exists |-> TRUE, projects |-> DefaultProjects],
      [exists |-> TRUE, projects |-> {}],
      [exists |-> FALSE, projects |-> {}]>>

\* ~/.codex/sessions: the parsed files in the order collect_codex_session_files
\* meets them.  The session id of a file is its file stem.
CodexSessionFiles ==
    <<[path |-> "c1", cwd |-> Some(PathAB), modified |-> PollNow - 400,
       last_role |-> Some("assistant"), last_message |-> Some("k1"),
       last_activity_at |-> Some(PollNow - 400)],
      [path |-> "c3", cwd |-> Some(RootPath), modified |-> PollNow - 50,
       last_role |-> Some("assistant"), last_message |-> None,
       last_activity_at |-> None],
      [path |-> "c2", cwd |-> None, modified |-> PollNow - 5,
       last_role |-> Some("assistant"), last_message |-> None,
       last_activity_at |-> None]>>
CodexDirExists == TRUE

\* ~/.local/share/opencode/storage: projects in load_projects order, and the
\* session files of each project directory in read_dir order.  last_role and
\* last_text are what get_last_message finds for the session.
PathA == <<"/", "a">>
PathX == <<"/", "x">>
OpenCodeStorageExists == TRUE
OpenCodeProjects ==
    <<[id |-> "p1", worktree |-> PathA, sandboxes |-> << >>],
      [id |-> "p2", worktree |-> PathX, sandboxes |-> <<PathAB>>],
      [id |-> "global", worktree |-> RootPath, sandboxes |-> << >>]>>
OpenCodeSessionFiles ==
    <<[id |-> "o4", project_id |-> "p1", directory |-> PathA, title |-> Some("t4"),
       updated |-> PollNow - 50, last_role |-> Some("user"), last_text |-> Some("x4")],
      [id |-> "o1", project_id |-> "p1", directory |-> PathA, title |-> Some("t1"),
       updated |-> PollNow - 5, last_role |-> Some("assistant"), last_text |-> Some("x1")],
      [id |-> "o2", project_id |-> "p2", directory |-> PathX, title |-> None,
       updated |-> PollNow - 700, last_role |-> None, last_text |-> None],
      [id |-> "o5", project_id |-> "global", directory |-> PathAUnderB, title |-> Some("t5"),
       updated |-> PollNow - 700, last_role |-> Some("assistant"), last_text |-> Some("x5")],
      [id |-> "o3", project_id |-> "global", directory |-> PathAUnderB, title |-> Some("t3"),
       updated |-> PollNow - 5, last_role |-> Some("user"), last_text |-> Some("x3")],
      [id |-> "o6", project_id |-> "global", directory |-> PathX, title |-> Some("t6"),
       updated |-> PollNow - 2, last_role |-> Some("user"), last_text |-> Some("x6")]>>

(***************************************************************************)
(* 8. Claude detector (parser/jsonl_files.rs, parser/sessions.rs)          *)
(***************************************************************************)
\* The processes of one agent that the filter returns.  The filters walk the
\* process table of sysinfo; the model lists them in pid order.
find_processes(agent) ==
    LET live == SelectSeq([p \in Pids |-> procs[p]], IsSome)
        mine == SelectSeq(live, LAMBDA o : Unwrap(o).agent = agent)
    IN  [i \in 1..Len(mine) |-> Unwrap(mine[i])]

is_subagent_file(entry) == entry.subagent

get_recently_active_jsonl_files(project_dir) ==
    SortBy(SelectSeq(project_dir.entries, LAMBDA e : ~is_subagent_file(e)),
           LAMBDA a, b : a.modified > b.modified)

SUBAGENT_ACTIVE_SECS == 30
OTHER_FILE_ACTIVE_SECS == 10

count_active_subagents(project_dir, parent_session_id, t) ==
    Cardinality({i \in 1..Len(project_dir.entries) :
        /\ is_subagent_file(project_dir.entries[i])
        /\ t - project_dir.entries[i].modified < SUBAGENT_ACTIVE_SECS
        /\ project_dir.entries[i].session_id = Some(parent_session_id)})

\* A plausible slip: the session id of the other file is not compared.
TakesStatusOfAnySession(session, file, other, primary, t) ==
    /\ file.path # primary.path
    /\ t - file.modified < OTHER_FILE_ACTIVE_SECS
    /\ IsSome(other)
    /\ status_sort_priority(Unwrap(other).status) < status_sort_priority(session.status)

\* The body of the loop: whether session takes the status of the file, parsed
\* as other.
TakesStatusOf(session, file, other, primary, t) ==
    /\ file.path # primary.path
    /\ t - file.modified < OTHER_FILE_ACTIVE_SECS
    /\ IsSome(other)
    /\ Unwrap(other).id = session.id
    /\ status_sort_priority(Unwrap(other).status) < status_sort_priority(session.status)

\* The loop over the other files of the directory: a file touched in the last
\* 10 s, of the same session id, with a more active status gives its status.
RECURSIVE MoreActiveStatus(_, _, _, _, _, _, _, _)
MoreActiveStatus(session, jsonl_files, i, primary, project_path, process, agent_type, t) ==
    IF i > Len(jsonl_files) THEN session
    ELSE LET file == jsonl_files[i]
             other == parse_session_file(file, project_path, process.pid, process.cpu_usage, agent_type, t)
             takes == TakesStatusOf(session, file, other, primary, t)
             next == IF takes THEN [session EXCEPT !.status = Unwrap(other).status] ELSE session
         IN  MoreActiveStatus(next, jsonl_files, i + 1, primary, project_path, process, agent_type, t)

\* A plausible slip: the CPU threshold is inclusive.
CpuOverrideInclusive(session, process, t) ==
    IF /\ session.status = "Waiting"
       /\ process.cpu_usage >= CPU_OVERRIDE_THRESHOLD
       /\ ~MessageIsStale(session.last_activity_at, t)
    THEN [session EXCEPT !.status = "Processing"]
    ELSE session

CpuOverride(session, process, t) ==
    IF /\ session.status = "Waiting"
       /\ process.cpu_usage > CPU_OVERRIDE_THRESHOLD
       /\ ~MessageIsStale(session.last_activity_at, t)
    THEN [session EXCEPT !.status = "Processing"]
    ELSE session

\* index counts from 0 as in the code.
find_session_for_process(jsonl_files, project_dir, project_path, process, index, agent_type, t) ==
    IF index + 1 > Len(jsonl_files) THEN None
    ELSE LET primary == jsonl_files[index + 1]
             parsed == parse_session_file(primary, project_path, process.pid, process.cpu_usage, agent_type, t)
         IN  IF ~IsSome(parsed) THEN None
             ELSE LET counted == [Unwrap(parsed) EXCEPT !.active_subagent_count =
                                     count_active_subagents(project_dir, Unwrap(parsed).id, t)]
                      promoted == MoreActiveStatus(counted, jsonl_files, 1, primary, project_path, process, agent_type, t)
                  IN  Some(CpuOverride(promoted, process, t))

\* A plausible slip: the session carries the path reconstructed from the
\* directory name.
actual_path_reconstructed(process, project_path) == project_path

\* actual_path: the cwd of the process, and the reconstructed project_path
\* only for a process without one.
actual_path(process, project_path) ==
    IF IsSome(process.cwd) THEN Unwrap(process.cwd) ELSE project_path

\* The directory names a cwd contributes to candidate_projects.
CandidateNames(cwd) ==
    LET exact_dir_name == convert_path_to_dir_name(cwd)
    IN  {exact_dir_name, ReplaceUnderscore(exact_dir_name)}

CwdKeys(processes) ==
    {Unwrap(processes[i].cwd) : i \in {j \in 1..Len(processes) : IsSome(processes[j].cwd)}}

CandidateKeys(processes) == UNION {CandidateNames(cwd) : cwd \in CwdKeys(processes)}

\* candidate_projects[dir_name] when cwd_to_processes is iterated in cwd_order.
MatchingProcesses(processes, cwd_order, dir_name) ==
    Flatten([i \in 1..Len(cwd_order) |->
        IF dir_name \in CandidateNames(cwd_order[i])
        THEN SelectSeq(processes, LAMBDA pr : pr.cwd = Some(cwd_order[i]))
        ELSE << >>])

ProjectDir(claude_dir, dir_name) ==
    IF \E d \in claude_dir.projects : d.name = dir_name
    THEN Some(CHOOSE d \in claude_dir.projects : d.name = dir_name)
    ELSE None

\* The sessions pushed by get_sessions_internal before deduplication, when
\* cwd_to_processes iterates in cwd_order and candidate_projects in dir_order.
ScannedSessions(processes, cwd_order, dir_order, agent_type, t) ==
    Flatten([r \in 1..Len(ClaudeProjectsDirs) |->
      IF ~ClaudeProjectsDirs[r].exists THEN << >>
      ELSE Flatten([k \in 1..Len(dir_order) |->
        LET dir == ProjectDir(ClaudeProjectsDirs[r], dir_order[k])
            matching_processes == MatchingProcesses(processes, cwd_order, dir_order[k])
        IN  IF ~IsSome(dir) THEN << >>
            ELSE Flatten([n \in 1..Len(matching_processes) |->
                   find_session_for_process(
                       get_recently_active_jsonl_files(Unwrap(dir)), Unwrap(dir),
                       actual_path(matching_processes[n],
                                   convert_dir_name_to_path(dir_order[k])),
                       matching_processes[n], n - 1, agent_type, t)])])])

\* PREVIOUS_STATUS after the sessions were recorded in order.
RECURSIVE RecordStatuses(_, _)
RecordStatuses(map, sessions) ==
    IF sessions = << >> THEN map
    ELSE LET s == Head(sessions)
         IN  RecordStatuses([id \in DOMAIN map \cup {s.id} |->
                                IF id = s.id THEN s.status ELSE map[id]],
                            Tail(sessions))

\* What the loop does per session: the lookup of the previous status, the
\* warning when it differs, the insert.
RECURSIVE StatusUpdates(_, _)
StatusUpdates(map, sessions) ==
    IF sessions = << >> THEN << >>
    ELSE LET s == Head(sessions)
             prev_status == IF s.id \in DOMAIN map THEN Some(map[s.id]) ELSE None
             warned == IsSome(prev_status) /\ Unwrap(prev_status) # s.status
         IN  <<[id |-> s.id, status |-> s.status, warned |-> warned]>>
                 \o StatusUpdates(RecordStatuses(map, <<s>>), Tail(sessions))

(***************************************************************************)
(* 9. Codex detector (agent/codex/session.rs)                              *)
(***************************************************************************)
\* A plausible slip: the 5-minute test comes first, so Stale is never reached.
codex_determine_status_idle_first(cpu_usage, last_role, modified, t) ==
    LET status == IF cpu_usage > CPU_OVERRIDE_THRESHOLD THEN "Processing"
                  ELSE IF last_role = Some("user") THEN "Processing"
                  ELSE "Waiting"
        age_secs == t - modified
    IN  IF status = "Waiting" /\ modified <= t
        THEN IF age_secs >= IDLE_THRESHOLD_SECS THEN "Idle"
             ELSE IF age_secs >= STALE_THRESHOLD_SECS THEN "Stale"
             ELSE status
        ELSE status

codex_determine_status(cpu_usage, last_role, modified, t) ==
    LET status == IF cpu_usage > CPU_OVERRIDE_THRESHOLD THEN "Processing"
                  ELSE IF last_role = Some("user") THEN "Processing"
                  ELSE "Waiting"
        age_secs == t - modified
    IN  IF status = "Waiting" /\ modified <= t
        THEN IF age_secs >= STALE_THRESHOLD_SECS THEN "Stale"
             ELSE IF age_secs >= IDLE_THRESHOLD_SECS THEN "Idle"
             ELSE status
        ELSE status

CodexFallbackId(pid) == "codex-" \o ToString(pid)

build_session_from_file(file, process, t) ==
    LET project_path == IF IsSome(file.cwd) THEN Unwrap(file.cwd)
                        ELSE IF IsSome(process.cwd) THEN Unwrap(process.cwd)
                        ELSE RootPath
    IN  [id |-> file.path, agent_type |-> "Codex", project_path |-> project_path,
         status |-> codex_determine_status(process.cpu_usage, file.last_role, file.modified, t),
         last_message |-> file.last_message,
         last_activity_at |-> IF IsSome(file.last_activity_at) THEN file.last_activity_at
                              ELSE Some(file.modified),
         pid |-> process.pid, cpu_usage |-> process.cpu_usage,
         active_subagent_count |-> 0,
         is_background |-> is_background_session(project_path, file.last_message)]

\* A plausible slip: the synthesized session is Stale whatever the CPU usage.
codex_fallback_session_always_stale(process, t) ==
    LET project_path == IF IsSome(process.cwd) THEN Unwrap(process.cwd) ELSE RootPath
    IN  [id |-> CodexFallbackId(process.pid), agent_type |-> "Codex",
         project_path |-> project_path,
         status |-> "Stale",
         last_message |-> None, last_activity_at |-> Some(t),
         pid |-> process.pid, cpu_usage |-> process.cpu_usage,
         active_subagent_count |-> 0,
         is_background |-> is_background_session(project_path, None)]

codex_fallback_session(process, t) ==
    LET project_path == IF IsSome(process.cwd) THEN Unwrap(process.cwd) ELSE RootPath
    IN  [id |-> CodexFallbackId(process.pid), agent_type |-> "Codex",
         project_path |-> project_path,
         status |-> IF process.cpu_usage > CPU_OVERRIDE_THRESHOLD THEN "Processing" ELSE "Stale",
         last_message |-> None, last_activity_at |-> Some(t),
         pid |-> process.pid, cpu_usage |-> process.cpu_usage,
         active_subagent_count |-> 0,
         is_background |-> is_background_session(project_path, None)]

\* The indices of session_files, newest modification first (a stable sort).
NewestFirst(session_files, indices) ==
    SortBy(indices, LAMBDA a, b : session_files[a].modified > session_files[b].modified)

AllIndices(session_files) == [i \in 1..Len(session_files) |-> i]

\* Popping a queue until an unused index comes: the first unused index.
FirstUnused(queue, used) ==
    LET free == SelectSeq(queue, LAMBDA idx : idx \notin used)
    IN  IF free = << >> THEN None ELSE Some(Head(free))

AssignedIndex(session_files, process, used) ==
    LET by_cwd == IF IsSome(process.cwd)
                  THEN FirstUnused(NewestFirst(session_files,
                           SelectSeq(AllIndices(session_files),
                                     LAMBDA i : session_files[i].cwd = process.cwd)), used)
                  ELSE None
    IN  IF IsSome(by_cwd) THEN by_cwd
        ELSE FirstUnused(NewestFirst(session_files, AllIndices(session_files)), used)

RECURSIVE CodexLoop(_, _, _, _, _)
CodexLoop(session_files, processes, i, used, t) ==
    IF i > Len(processes) THEN << >>
    ELSE LET assigned_index == AssignedIndex(session_files, processes[i], used)
         IN  IF IsSome(assigned_index)
             THEN <<build_session_from_file(session_files[Unwrap(assigned_index)], processes[i], t)>>
                  \o CodexLoop(session_files, processes, i + 1, used \cup {Unwrap(assigned_index)}, t)
             ELSE <<codex_fallback_session(processes[i], t)>>
                  \o CodexLoop(session_files, processes, i + 1, used, t)

\* get_codex_sessions on a store: codex_dir.exists() and the parsed files.
codex_sessions_in(codex_dir_exists, session_files, processes, t) ==
    IF ~codex_dir_exists THEN << >>
    ELSE CodexLoop(session_files, processes, 1, {}, t)

get_codex_sessions(processes, t) ==
    codex_sessions_in(CodexDirExists, CodexSessionFiles, processes, t)

(***************************************************************************)
(* 10. OpenCode detector (agent/opencode/)                                 *)
(***************************************************************************)
\* A plausible slip: the age upgrade is applied to every status.
opencode_determine_status_always_ages(process, last_role, updated, t) ==
    LET status == IF process.cpu_usage > CPU_OVERRIDE_THRESHOLD THEN "Processing"
                  ELSE IF last_role = Some("assistant") THEN "Waiting"
                  ELSE IF last_role = Some("user") THEN "Processing"
                  ELSE "Waiting"
        age_secs == t - updated
    IN  IF age_secs >= STALE_THRESHOLD_SECS THEN "Stale"
        ELSE IF age_secs >= IDLE_THRESHOLD_SECS THEN "Idle"
        ELSE status

opencode_determine_status(process, last_role, updated, t) ==
    LET status == IF process.cpu_usage > CPU_OVERRIDE_THRESHOLD THEN "Processing"
                  ELSE IF last_role = Some("assistant") THEN "Waiting"
                  ELSE IF last_role = Some("user") THEN "Processing"
                  ELSE "Waiting"
        age_secs == t - updated
    IN  IF status = "Waiting"
        THEN IF age_secs >= STALE_THRESHOLD_SECS THEN "Stale"
             ELSE IF age_secs >= IDLE_THRESHOLD_SECS THEN "Idle"
             ELSE status
        ELSE status

\* The Session literal of build_session in src/ has no is_background field;
\* the rule of the Codex detector is applied.  title is None when empty.
build_session(session, process, project_path, t) ==
    LET display_message == IF IsSome(session.last_text) THEN session.last_text ELSE session.title
    IN  [id |-> session.id, agent_type |-> "OpenCode", project_path |-> project_path,
         status |-> opencode_determine_status(process, session.last_role, session.updated, t),
         last_message |-> display_message,
         last_activity_at |-> Some(session.updated),
         pid |-> process.pid, cpu_usage |-> process.cpu_usage,
         active_subagent_count |-> 0,
         is_background |-> is_background_session(project_path, display_message)]

load_session_from_file(path) ==
    LET hits == SelectSeq(OpenCodeSessionFiles, LAMBDA f : f.id = path)
    IN  IF hits = << >> THEN None ELSE Some(Head(hits))

\* cwd == dir or cwd lies under dir.
PathMatches(cwd, dir) == cwd = dir \/ StartsWith(cwd, dir \o <<"/">>)

ProjectMatchesCwd(project, cwd) ==
    \/ PathMatches(cwd, project.worktree)
    \/ \E i \in 1..Len(project.sandboxes) : PathMatches(cwd, project.sandboxes[i])

RECURSIVE LatestOf(_, _, _)
LatestOf(files, i, latest) ==
    IF i > Len(files) THEN latest
    ELSE LatestOf(files, i + 1,
                  IF ~IsSome(latest) \/ files[i].updated > Unwrap(latest).updated
                  THEN Some(files[i]) ELSE latest)

\* A plausible slip: the first session read is returned, not the latest.
find_latest_session_in_dir_first(project_id, filter_directory) ==
    LET in_dir == SelectSeq(OpenCodeSessionFiles, LAMBDA f : f.project_id = project_id)
        kept == SelectSeq(in_dir, LAMBDA f :
                    ~IsSome(filter_directory) \/ PathMatches(Unwrap(filter_directory), f.directory))
    IN  IF kept = << >> THEN None ELSE Some(Head(kept))

find_latest_session_in_dir(project_id, filter_directory) ==
    LET in_dir == SelectSeq(OpenCodeSessionFiles, LAMBDA f : f.project_id = project_id)
        kept == SelectSeq(in_dir, LAMBDA f :
                    ~IsSome(filter_directory) \/ PathMatches(Unwrap(filter_directory), f.directory))
    IN  LatestOf(kept, 1, None)

\* Sessions matched through the open session file of the process.
OpenFileSessions(processes, t) ==
    Flatten([i \in 1..Len(processes) |->
        IF IsSome(processes[i].active_session_file)
           /\ IsSome(load_session_from_file(Unwrap(processes[i].active_session_file)))
        THEN LET open_session == Unwrap(load_session_from_file(Unwrap(processes[i].active_session_file)))
                 project_path == IF IsSome(processes[i].cwd) THEN Unwrap(processes[i].cwd)
                                 ELSE open_session.directory
             IN  <<build_session(open_session, processes[i], project_path, t)>>
        ELSE << >>])

\* cwd_to_process: the last unmatched process of each cwd.
CwdToProcess(processes, matched_pids) ==
    LET rest == SelectSeq(processes, LAMBDA pr : pr.pid \notin matched_pids /\ IsSome(pr.cwd))
    IN  [cwd \in CwdKeys(rest) |->
           rest[CHOOSE i \in 1..Len(rest) :
                   /\ rest[i].cwd = Some(cwd)
                   /\ \A j \in (i + 1)..Len(rest) : rest[j].cwd # Some(cwd)]]

\* find_matching_process: the first entry in the map's iteration order.
find_matching_process(cwd_to_process, map_order, project) ==
    LET hits == SelectSeq(map_order, LAMBDA cwd : ProjectMatchesCwd(project, cwd))
    IN  IF hits = << >> THEN None ELSE Some(cwd_to_process[Head(hits)])

get_latest_session_for_project(project, process, t) ==
    LET session == find_latest_session_in_dir(project.id, None)
    IN  IF ~IsSome(session) THEN None
        ELSE Some(build_session(Unwrap(session), process,
                                IF IsSome(process.cwd) THEN Unwrap(process.cwd) ELSE project.worktree, t))

get_global_session_for_directory(directory, process, t) ==
    LET session == find_latest_session_in_dir("global", Some(directory))
    IN  IF ~IsSome(session) THEN None
        ELSE Some(build_session(Unwrap(session), process, Unwrap(session).directory, t))

get_opencode_sessions(processes, map_order, t) ==
    IF ~OpenCodeStorageExists THEN << >>
    ELSE
    LET by_file == OpenFileSessions(processes, t)
        matched_by_file == PidsOf(by_file)
        cwd_to_process == CwdToProcess(processes, matched_by_file)
        matched_process(k) ==
            IF OpenCodeProjects[k].id = "global" THEN None
            ELSE find_matching_process(cwd_to_process, map_order, OpenCodeProjects[k])
        by_project == Flatten([k \in 1..Len(OpenCodeProjects) |->
            IF IsSome(matched_process(k))
            THEN get_latest_session_for_project(OpenCodeProjects[k], Unwrap(matched_process(k)), t)
            ELSE None])
        matched_pids == matched_by_file \cup
            {Unwrap(matched_process(k)).pid :
                k \in {j \in 1..Len(OpenCodeProjects) : IsSome(matched_process(j))}}
        by_global == Flatten([i \in 1..Len(processes) |->
            IF processes[i].pid \notin matched_pids /\ IsSome(processes[i].cwd)
            THEN get_global_session_for_directory(Unwrap(processes[i].cwd), processes[i], t)
            ELSE None])
    IN  by_file \o by_project \o by_global

(***************************************************************************)
(* 11. The facade get_all_sessions (agent/mod.rs)                          *)
(***************************************************************************)
\* sort_by of the foreground list, with the activity comparison left out.
ForegroundLessPriorityOnly(a, b) ==
    status_sort_priority(a.status) < status_sort_priority(b.status)

\* sort_by of the foreground list: a is Less than b.
ForegroundLess(a, b) ==
    LET priority_a == status_sort_priority(a.status)
        priority_b == status_sort_priority(b.status)
    IN  IF priority_a # priority_b THEN priority_a < priority_b
        ELSE ActivityCmp(b.last_activity_at, a.last_activity_at) = -1

agent_sort_key(agent_type) ==
    CASE agent_type = "Claude" -> 0
      [] agent_type = "Codex" -> 1
      [] agent_type = "OpenCode" -> 2

BackgroundLess(a, b) ==
    LET key_a == agent_sort_key(a.agent_type)
        key_b == agent_sort_key(b.agent_type)
    IN  IF key_a # key_b THEN key_a < key_b
        ELSE ActivityCmp(b.last_activity_at, a.last_activity_at) = -1

\* The count of foreground sessions that are not working, Idle and Stale included.
WaitingCountNotWorking(foreground_sessions) ==
    Cardinality({i \in 1..Len(foreground_sessions) :
        foreground_sessions[i].status \in {"Waiting", "Idle", "Stale"}})

WaitingCount(foreground_sessions) ==
    Cardinality({i \in 1..Len(foreground_sessions) : foreground_sessions[i].status = "Waiting"})

SessionsResponse(sessions) ==
    LET foreground_sessions == SortBy(SelectSeq(sessions, LAMBDA x : ~x.is_background), ForegroundLess)
        background_sessions == SortBy(SelectSeq(sessions, LAMBDA x : x.is_background), BackgroundLess)
    IN  [sessions |-> foreground_sessions,
         background_sessions |-> background_sessions,
         total_count |-> Len(foreground_sessions),
         waiting_count |-> WaitingCount(foreground_sessions)]

(***************************************************************************)
(* 12. The poll.  One evaluation of get_all_sessions runs the three        *)
(* detectors in order and then builds the response; the same snapshot and  *)
(* stores are evaluated MaxRuns times.  all_sessions keeps the detector    *)
(* output of the evaluation until the next one starts.                     *)
(***************************************************************************)
MaxRuns == 2

DetectClaude ==
    /\ pc = "claude"
    /\ LET processes == find_processes("Claude")
       IN  \E cwd_order \in Orders(CwdKeys(processes)) :
           \E dir_order \in Orders(CandidateKeys(processes)) :
             LET scanned == ScannedSessions(processes, cwd_order, dir_order, "Claude", PollNow)
             IN  \E pid_order \in Orders(PidsOf(scanned)) :
                   /\ all_sessions' = dedupe_sessions_by_pid(scanned, pid_order)
                   /\ previous_status' = RecordStatuses(previous_status, scanned)
                   /\ status_updates' = status_updates
                                            \o StatusUpdates(previous_status, scanned)
                   /\ found' = <<[agent |-> "Claude", processes |-> processes]>>
    /\ pc' = "codex"
    /\ UNCHANGED <<procs, run, responses>>

DetectCodex ==
    /\ pc = "codex"
    /\ LET processes == find_processes("Codex")
       IN  /\ all_sessions' = all_sessions \o
                 (IF processes = << >> THEN << >> ELSE get_codex_sessions(processes, PollNow))
           /\ found' = Append(found, [agent |-> "Codex", processes |-> processes])
    /\ pc' = "opencode"
    /\ UNCHANGED <<procs, run, responses, previous_status, status_updates>>

DetectOpenCode ==
    /\ pc = "opencode"
    /\ LET processes == find_processes("OpenCode")
           by_file == PidsOf(OpenFileSessions(processes, PollNow))
       IN  \E map_order \in Orders(DOMAIN CwdToProcess(processes, by_file)) :
             /\ all_sessions' = all_sessions \o
                   (IF processes = << >> THEN << >>
                    ELSE get_opencode_sessions(processes, map_order, PollNow))
             /\ found' = Append(found, [agent |-> "OpenCode", processes |-> processes])
    /\ pc' = "respond"
    /\ UNCHANGED <<procs, run, responses, previous_status, status_updates>>

Respond ==
    /\ pc = "respond"
    /\ responses' = Append(responses, SessionsResponse(all_sessions))
    /\ IF run < MaxRuns
       THEN pc' = "claude" /\ run' = run + 1
       ELSE pc' = "done" /\ run' = run
    /\ UNCHANGED <<procs, found, all_sessions, previous_status, status_updates>>

\* The snapshots: every pid is dead (None) or runs one agent process.
ProcSlots(pid) == {None} \cup {Some(x) : x \in ProcessesOf(pid)}

RECURSIVE Snapshots(_)
Snapshots(n) ==
    IF n = 0 THEN {<< >>}
    ELSE {Append(s, x) : s \in Snapshots(n - 1), x \in ProcSlots(n)}

Init ==
    /\ procs \in Snapshots(MaxProcs)
    /\ pc = "claude"
    /\ run = 1
    /\ found = << >>
    /\ all_sessions = << >>
    /\ responses = << >>
    /\ previous_status = << >>
    /\ status_updates = << >>
    /\ RefreshUnused /\ DedupeUnused /\ StatusUnused /\ CallUnused /\ LockUnused

Next ==
    \/ DetectClaude /\ UNCHANGED <<refreshVars, dedupeVars, statusVars, callVars, lockVars>>
    \/ DetectCodex /\ UNCHANGED <<refreshVars, dedupeVars, statusVars, callVars, lockVars>>
    \/ DetectOpenCode /\ UNCHANGED <<refreshVars, dedupeVars, statusVars, callVars, lockVars>>
    \/ Respond /\ UNCHANGED <<refreshVars, dedupeVars, statusVars, callVars, lockVars>>

Spec == Init /\ [][Next]_vars

\* The responses returned so far, and the sessions of a response.
Listed(response) == response.sessions \o response.background_sessions
Returned == {responses[i] : i \in 1..Len(responses)}

\* The response of the evaluation that finished last, once it is returned.
Responded == responses # << >> /\ pc \in {"claude", "done"}
LastResponse == responses[Len(responses)]
Occurrences(list, x) == Cardinality({i \in 1..Len(list) : list[i] = x})

\* C2: in every response, no two sessions of the foreground and background
\* lists together carry the same process id.
C2_OneSessionPerPid ==
    \A r \in Returned :
        \A i, j \in 1..Len(Listed(r)) :
            i # j => Listed(r)[i].pid # Listed(r)[j].pid

\* C3: every process a detector's find_processes returned in the evaluation
\* has at least one session, of that detector's agent type, in the response.
C3_EveryProcessListed ==
    Responded =>
        \A k \in 1..Len(found) :
            \A n \in 1..Len(found[k].processes) :
                \E i \in 1..Len(Listed(LastResponse)) :
                    /\ Listed(LastResponse)[i].pid = found[k].processes[n].pid
                    /\ Listed(LastResponse)[i].agent_type = found[k].agent

\* C4: two evaluations over the same snapshot and the same stores return the
\* same response: the same sessions in the same order in both lists.
C4_Deterministic ==
    \A r1, r2 \in Returned : r1 = r2

\* C5: in every response the foreground list is sorted by status priority
\* and, within a priority, by last_activity_at newest first; the background
\* list by agent order Claude, Codex, OpenCode and, within an agent, by
\* last_activity_at newest first.
C5_ListsSorted ==
    \A r \in Returned :
        /\ \A i \in 1..(Len(r.sessions) - 1) :
             LET a == r.sessions[i]
                 b == r.sessions[i + 1]
             IN  /\ status_sort_priority(a.status) <= status_sort_priority(b.status)
                 /\ status_sort_priority(a.status) = status_sort_priority(b.status)
                      => ActivityCmp(a.last_activity_at, b.last_activity_at) >= 0
        /\ \A i \in 1..(Len(r.background_sessions) - 1) :
             LET a == r.background_sessions[i]
                 b == r.background_sessions[i + 1]
             IN  /\ agent_sort_key(a.agent_type) <= agent_sort_key(b.agent_type)
                 /\ a.agent_type = b.agent_type
                      => ActivityCmp(a.last_activity_at, b.last_activity_at) >= 0

\* A Claude session and a newer Codex session of the same priority: the sort
\* puts the Codex session, detected second, first.
C5_Witness ==
    /\ Responded
    /\ Len(all_sessions) = 2
    /\ LastResponse.sessions = <<all_sessions[2], all_sessions[1]>>
    /\ all_sessions[1].agent_type = "Claude"
    /\ all_sessions[2].agent_type = "Codex"
    /\ all_sessions[1].status = all_sessions[2].status
    /\ ActivityCmp(all_sessions[2].last_activity_at, all_sessions[1].last_activity_at) = 1

\* C6: the response lists every detected session once, in the foreground list
\* iff it is not a background session; total_count is the length of the
\* foreground list and waiting_count the number of its Waiting sessions.
C6_PartitionAndCounts ==
    /\ \A r \in Returned :
         /\ r.total_count = Len(r.sessions)
         /\ r.waiting_count = Cardinality({i \in 1..Len(r.sessions) : r.sessions[i].status = "Waiting"})
         /\ r.waiting_count <= r.total_count
         /\ \A i \in 1..Len(r.sessions) : ~r.sessions[i].is_background
         /\ \A i \in 1..Len(r.background_sessions) : r.background_sessions[i].is_background
    /\ Responded =>
         /\ Len(Listed(LastResponse)) = Len(all_sessions)
         /\ \A i \in 1..Len(all_sessions) :
              LET s == all_sessions[i]
              IN  /\ Occurrences(LastResponse.sessions, s) =
                       (IF s.is_background THEN 0 ELSE Occurrences(all_sessions, s))
                  /\ Occurrences(LastResponse.background_sessions, s) =
                       (IF s.is_background THEN Occurrences(all_sessions, s) ELSE 0)

\* A foreground Idle session and a background Waiting session: neither is
\* counted as waiting.
C6_Witness ==
    /\ Responded
    /\ Len(LastResponse.sessions) = 1
    /\ LastResponse.sessions[1].status = "Idle"
    /\ Len(LastResponse.background_sessions) = 1
    /\ LastResponse.background_sessions[1].status = "Waiting"
    /\ LastResponse.total_count = 1
    /\ LastResponse.waiting_count = 0

(***************************************************************************)
(* 13. Re-evaluation of one session as time passes.  The store entry is    *)
(* fixed (no new activity); its status is computed at an instant and again *)
(* at a later one, by the rules of each of the three agents.               *)
(***************************************************************************)
\* The instants (s) at which the session is evaluated; the last message or
\* update of the entry is at AgingStart.
AgingStart == 0
AgingInstants == {0, 2, 3, 30, 31, 299, 300, 599, 600, 601, 660, 1200}
AgingModified == {AgingStart, 598}
AgingRoles == {None, Some("user"), Some("assistant")}

AgingClaudeFiles ==
    [session_id : {Some("s1")}, msg_type : StatusMsgTypes,
     has_tool_use : BOOLEAN, has_tool_result : {FALSE},
     is_local_command : BOOLEAN, is_interrupted : BOOLEAN,
     modified : AgingModified, timestamp : {None, Some(AgingStart)},
     last_message : {Some("m")}]

AgingInputs ==
    [rules : {"Claude"}, file : AgingClaudeFiles]
    \cup [rules : {"Codex", "OpenCode"}, cpu_usage : CpuUsages,
          last_role : AgingRoles, updated : {AgingStart}]

\* The status the rules of the agent give the entry at time t.
StatusAt(input, t) ==
    CASE input.rules = "Claude" ->
            Unwrap(parse_session_file(input.file, PathAB, 1, 0, "Claude", t)).status
      [] input.rules = "Codex" ->
            codex_determine_status(input.cpu_usage, input.last_role, input.updated, t)
      [] input.rules = "OpenCode" ->
            opencode_determine_status([cpu_usage |-> input.cpu_usage], input.last_role,
                                      input.updated, t)

\* Seconds since the last activity of the entry, when it is known.
ElapsedAt(input, t) ==
    IF input.rules = "Claude"
    THEN IF IsSome(input.file.timestamp) THEN Some(t - Unwrap(input.file.timestamp)) ELSE None
    ELSE Some(t - input.updated)

LastTouched(input) == IF input.rules = "Claude" THEN input.file.modified ELSE input.updated

Evaluate ==
    /\ fn_out = None
    /\ \E t \in AgingInstants :
         /\ t >= LastTouched(Unwrap(fn_in))
         /\ fn_out' = Some([at |-> t, elapsed |-> ElapsedAt(Unwrap(fn_in), t),
                            status |-> StatusAt(Unwrap(fn_in), t)])
    /\ UNCHANGED <<fn_in, fn_prev>>

Reevaluate ==
    /\ IsSome(fn_out)
    /\ \E t \in AgingInstants :
         /\ t > Unwrap(fn_out).at
         /\ fn_out' = Some([at |-> t, elapsed |-> ElapsedAt(Unwrap(fn_in), t),
                            status |-> StatusAt(Unwrap(fn_in), t)])
    /\ fn_prev' = fn_out
    /\ UNCHANGED fn_in

AgingInit ==
    /\ \E input \in AgingInputs : fn_in = Some(input)
    /\ fn_out = None /\ fn_prev = None
    /\ RefreshUnused /\ PollUnused /\ DedupeUnused /\ StatusUnused /\ LockUnused

AgingNext ==
    \/ Evaluate /\ UNCHANGED <<refreshVars, pollVars, dedupeVars, statusVars, lockVars>>
    \/ Reevaluate /\ UNCHANGED <<refreshVars, pollVars, dedupeVars, statusVars, lockVars>>

SpecAging == AgingInit /\ [][AgingNext]_vars

CpuLevels == {0, 15, 16, 50}
CpuAges == {5, 30, 31, 400}
CpuModified == {StatusNow - 1, StatusNow - 5, StatusNow - 20}

CpuPrimaryFiles ==
    [path : {"f1"}, session_id : {Some("s1")}, msg_type : StatusMsgTypes,
     has_tool_use : BOOLEAN, has_tool_result : {FALSE},
     is_local_command : BOOLEAN, is_interrupted : {FALSE},
     modified : CpuModified,
     timestamp : {None} \cup {Some(StatusNow - age) : age \in CpuAges},
     last_message : {Some("m")}, subagent : {FALSE}]

\* The other files of the directory: none, or one written 5 s or 1 s ago, of
\* the same or of another session.
CpuOtherFiles ==
    {<< >>,
     <<ClaudeFile("f2", Some("s1"), Some("assistant"), FALSE, StatusNow - 5,
                  Some(StatusNow - 5), Some("m2"), FALSE)>>,
     <<ClaudeFile("f2", Some("s1"), Some("assistant"), TRUE, StatusNow - 1,
                  Some(StatusNow - 1), Some("m2"), FALSE)>>,
     <<ClaudeFile("f2", Some("s2"), Some("user"), FALSE, StatusNow - 1,
                  Some(StatusNow - 1), Some("m2"), FALSE)>>}

CpuInputs == [primary : CpuPrimaryFiles, others : CpuOtherFiles, cpu_usage : CpuLevels]

CpuProcess(cpu_usage) ==
    [agent |-> "Claude", pid |-> 1, cwd |-> Some(PathAB), cpu_usage |-> cpu_usage,
     active_session_file |-> None]

\* find_session_for_process on the directory of the input, for the process
\* at index 0; the status is also recorded as it enters the CPU check.
CpuCall ==
    /\ IsSome(fn_in) /\ fn_out = None
    /\ LET input == Unwrap(fn_in)
           jsonl_files == <<input.primary>> \o input.others
           project_dir == [name |-> convert_path_to_dir_name(PathAB), entries |-> jsonl_files]
           process == CpuProcess(input.cpu_usage)
           parsed == Unwrap(parse_session_file(input.primary, PathAB, 1, input.cpu_usage,
                                               "Claude", StatusNow))
           entering == MoreActiveStatus(parsed, jsonl_files, 1, input.primary, PathAB,
                                        process, "Claude", StatusNow)
           session == find_session_for_process(jsonl_files, project_dir, PathAB, process,
                                               0, "Claude", StatusNow)
       IN  fn_out' = Some([parsed |-> parsed.status, entering |-> entering.status,
                           session |-> Unwrap(session)])
    /\ UNCHANGED <<fn_in, fn_prev>>

CpuInit ==
    /\ \E input \in CpuInputs : fn_in = Some(input)
    /\ fn_out = None /\ fn_prev = None
    /\ RefreshUnused /\ PollUnused /\ DedupeUnused /\ StatusUnused /\ LockUnused

CpuNext == CpuCall /\ UNCHANGED <<refreshVars, pollVars, dedupeVars, statusVars, lockVars>>

SpecCpu == CpuInit /\ [][CpuNext]_vars

\* Age (s) of the last message of the primary file, when it has a timestamp.
CpuMessageFresh ==
    /\ IsSome(Unwrap(fn_in).primary.timestamp)
    /\ StatusNow - Unwrap(Unwrap(fn_in).primary.timestamp) <= STALENESS_THRESHOLD_SECS

\* C15: the CPU check of find_session_for_process changes the status it
\* receives exactly when that status is Waiting, the CPU usage is above 15
\* and the last message is at most 30 s old, and then to Processing; Thinking,
\* Idle and Stale pass unchanged, and with an older or missing timestamp no
\* status is changed.  With one file in the directory the status it receives
\* is the one parse_session_file computed.
C15_CpuOverrideExact ==
    IsSome(fn_out) =>
        LET out == Unwrap(fn_out)
            fires == /\ out.entering = "Waiting"
                     /\ Unwrap(fn_in).cpu_usage > 15
                     /\ CpuMessageFresh
        IN  /\ out.session.status # out.entering <=> fires
            /\ fires => out.session.status = "Processing"
            /\ out.entering \in {"Thinking", "Idle", "Stale"} => out.session.status = out.entering
            /\ ~CpuMessageFresh => out.session.status = out.entering
            /\ Unwrap(fn_in).others = << >> => out.entering = out.parsed

\* C15 witness: a lone file whose assistant text message is exactly 30 s old,
\* Waiting after the message rules, made Processing by a CPU usage of 16.
C15_Witness ==
    /\ IsSome(fn_out)
    /\ Unwrap(fn_in).others = << >>
    /\ Unwrap(fn_in).cpu_usage = 16
    /\ Unwrap(fn_in).primary.timestamp = Some(StatusNow - 30)
    /\ Unwrap(fn_out).parsed = "Waiting"
    /\ Unwrap(fn_out).session.status = "Processing"

(***************************************************************************)
(* 15. The status of a Codex or OpenCode session built from one entry of   *)
(* the session store.                                                      *)
(***************************************************************************)
EntryAges == {0, 299, 300, 599, 600, 700}
EntryRoles == {None, Some("user"), Some("assistant"), Some("tool")}
EntryInputs ==
    [rules : {"Codex", "OpenCode"}, cpu_usage : CpuLevels, last_role : EntryRoles,
     age : EntryAges]

EntryProcess(rules, cpu_usage) ==
    [agent |-> rules, pid |-> 1, cwd |-> Some(PathAB), cpu_usage |-> cpu_usage,
     active_session_file |-> None]

\* build_session_from_file (Codex) or build_session (OpenCode) on the entry.
BuildFromEntry(input, t) ==
    IF input.rules = "Codex"
    THEN build_session_from_file(
             [path |-> "c1", cwd |-> Some(PathAB), modified |-> t - input.age,
              last_role |-> input.last_role, last_message |-> Some("k1"),
              last_activity_at |-> None],
             EntryProcess("Codex", input.cpu_usage), t)
    ELSE build_session(
             [id |-> "o1", project_id |-> "p1", directory |-> PathAB, title |-> Some("t1"),
              updated |-> t - input.age, last_role |-> input.last_role,
              last_text |-> Some("x1")],
             EntryProcess("OpenCode", input.cpu_usage), PathAB, t)

EntryCall ==
    /\ IsSome(fn_in) /\ fn_out = None
    /\ fn_out' = Some(BuildFromEntry(Unwrap(fn_in), PollNow))
    /\ UNCHANGED <<fn_in, fn_prev>>

EntryInit ==
    /\ \E input \in EntryInputs : fn_in = Some(input)
    /\ fn_out = None /\ fn_prev = None
    /\ RefreshUnused /\ PollUnused /\ DedupeUnused /\ StatusUnused /\ LockUnused

EntryNext == EntryCall /\ UNCHANGED <<refreshVars, pollVars, dedupeVars, statusVars, lockVars>>

SpecEntry == EntryInit /\ [][EntryNext]_vars

\* C16: a Codex or OpenCode session built from a store entry is Processing
\* when the CPU usage is above 15, else Processing when the last role is
\* user, else Waiting below 300 s since the last update, Idle from 300 s and
\* Stale from 600 s; it is never Thinking.
C16_SimplifiedRules ==
    IsSome(fn_out) =>
        LET input == Unwrap(fn_in)
            status == Unwrap(fn_out).status
        IN  /\ status # "Thinking"
            /\ status = ( IF input.cpu_usage > 15 THEN "Processing"
                          ELSE IF input.last_role = Some("user") THEN "Processing"
                          ELSE IF input.age >= 600 THEN "Stale"
                          ELSE IF input.age >= 300 THEN "Idle"
                          ELSE "Waiting" )
            /\ (input.cpu_usage > 15 \/ input.last_role = Some("user"))
                  => status \notin {"Idle", "Stale"}

\* C16 witness: an OpenCode entry updated 700 s ago whose last role is user,
\* with an idle process, is Processing; it is not aged.
C16_Witness ==
    /\ IsSome(fn_out)
    /\ Unwrap(fn_in).rules = "OpenCode"
    /\ Unwrap(fn_in).cpu_usage = 15
    /\ Unwrap(fn_in).last_role = Some("user")
    /\ Unwrap(fn_in).age = 700
    /\ Unwrap(fn_out).status = "Processing"

(***************************************************************************)
(* 16. The order of the statuses as the foreground sort uses it.           *)
(***************************************************************************)
\* C17: the status priority is strict: of two sessions of a foreground list
\* with different statuses, the one listed first has the strictly lower
\* priority, so no two statuses share a priority.
C17_StrictPriority ==
    \A r \in Returned :
        \A i, j \in 1..Len(r.sessions) :
            (i < j /\ r.sessions[i].status # r.sessions[j].status)
            => status_sort_priority(r.sessions[i].status)
                   < status_sort_priority(r.sessions[j].status)

\* C18: status_sort_priority is 0 for Thinking and for Processing, 1 for
\* Waiting, 2 for Idle and 3 for Stale, for the status of every listed
\* session; Thinking and Processing being tied, a Thinking and a Processing
\* session of a foreground list are ordered by last_activity_at alone.
C18_PriorityValues ==
    \A r \in Returned :
        /\ \A x \in SeqToSet(Listed(r)) :
             /\ x.status \in {"Thinking", "Processing"} => status_sort_priority(x.status) = 0
             /\ x.status = "Waiting" => status_sort_priority(x.status) = 1
             /\ x.status = "Idle" => status_sort_priority(x.status) = 2
             /\ x.status = "Stale" => status_sort_priority(x.status) = 3
        /\ \A i \in 1..(Len(r.sessions) - 1) :
             {r.sessions[i].status, r.sessions[i + 1].status} \subseteq {"Thinking", "Processing"}
             => ActivityCmp(r.sessions[i].last_activity_at,
                            r.sessions[i + 1].last_activity_at) >= 0

\* C18 witness: a foreground list where a Processing session stands right
\* before a Thinking one, and a session of a lower priority follows.
C18_Witness ==
    /\ Responded
    /\ \E i \in 1..(Len(LastResponse.sessions) - 1) :
         /\ LastResponse.sessions[i].status = "Processing"
         /\ LastResponse.sessions[i + 1].status = "Thinking"

(***************************************************************************)
(* 17. Idle and Stale against the time since the last activity: one        *)
(* session built by each detector, from a store entry or, for a Codex      *)
(* process without one, synthesized.                                       *)
(***************************************************************************)
ActivityInputs ==
    [rules : {"Claude"}, file : StatusFiles]
    \cup EntryInputs
    \cup [rules : {"Fallback"}, cpu_usage : CpuLevels, cwd : {None, Some(PathAB)}]

\* parse_session_file on a Claude session file.
ActivityParse ==
    /\ IsSome(fn_in) /\ fn_out = None /\ Unwrap(fn_in).rules = "Claude"
    /\ fn_out' = Some([at |-> StatusNow,
                       session |-> Unwrap(parse_session_file(Unwrap(fn_in).file, PathAB, 1, 0,
                                                             "Claude", StatusNow))])
    /\ UNCHANGED <<fn_in, fn_prev>>

\* A Codex or OpenCode session from its store entry.
ActivityEntry ==
    /\ IsSome(fn_in) /\ fn_out = None /\ Unwrap(fn_in).rules \in {"Codex", "OpenCode"}
    /\ fn_out' = Some([at |-> PollNow, session |-> BuildFromEntry(Unwrap(fn_in), PollNow)])
    /\ UNCHANGED <<fn_in, fn_prev>>

\* The session get_codex_sessions synthesizes for a process without an entry.
ActivityFallback ==
    /\ IsSome(fn_in) /\ fn_out = None /\ Unwrap(fn_in).rules = "Fallback"
    /\ LET process == [agent |-> "Codex", pid |-> 1, cwd |-> Unwrap(fn_in).cwd,
                       cpu_usage |-> Unwrap(fn_in).cpu_usage, active_session_file |-> None]
       IN  fn_out' = Some([at |-> PollNow, session |-> codex_fallback_session(process, PollNow)])
    /\ UNCHANGED <<fn_in, fn_prev>>

ActivityInit ==
    /\ \E input \in ActivityInputs : fn_in = Some(input)
    /\ fn_out = None /\ fn_prev = None
    /\ RefreshUnused /\ PollUnused /\ DedupeUnused /\ StatusUnused /\ LockUnused

ActivityNext ==
    \/ ActivityParse /\ UNCHANGED <<refreshVars, pollVars, dedupeVars, statusVars, lockVars>>
    \/ ActivityEntry /\ UNCHANGED <<refreshVars, pollVars, dedupeVars, statusVars, lockVars>>
    \/ ActivityFallback /\ UNCHANGED <<refreshVars, pollVars, dedupeVars, statusVars, lockVars>>

SpecActivity == ActivityInit /\ [][ActivityNext]_vars

\* C19: a session whose last activity is known is Idle only when that
\* activity is at least 300 s old, and Stale only when it is at least 600 s
\* old, whichever detector built it, the synthesized Codex session included.
C19_IdleStaleByAge ==
    (IsSome(fn_out) /\ IsSome(Unwrap(fn_out).session.last_activity_at)) =>
        LET x == Unwrap(fn_out).session
            elapsed == Unwrap(fn_out).at - Unwrap(x.last_activity_at)
        IN  /\ x.status = "Idle" => elapsed >= IDLE_THRESHOLD_SECS
            /\ x.status = "Stale" => elapsed >= STALE_THRESHOLD_SECS

(***************************************************************************)
(* 18. The round trip of a path through the two conversions of section 6.  *)
(***************************************************************************)
\* Absolute paths of at most MaxPathLen elements after the leading slash,
\* without an empty segment and without a trailing slash.
MaxPathLen == 5
PathAlphabet == {"/", "-", ".", "a", "Projects"}
RoundTripPaths ==
    {<<"/">> \o rest : rest \in
        {r \in UNION {[1..n -> PathAlphabet] : n \in 0..MaxPathLen} :
            /\ Len(r) > 0 => (r[1] # "/" /\ r[Len(r)] # "/")
            /\ \A i \in 1..(Len(r) - 1) : ~(r[i] = "/" /\ r[i + 1] = "/")}}

\* No segment of the path starts with a dot.
NoHiddenSegment(path) ==
    \A i \in 1..(Len(path) - 1) : ~(path[i] = "/" /\ path[i + 1] = ".")

EncodePath ==
    /\ IsSome(fn_in) /\ fn_prev = None
    /\ fn_prev' = Some(convert_path_to_dir_name(Unwrap(fn_in)))
    /\ UNCHANGED <<fn_in, fn_out>>

DecodeName ==
    /\ IsSome(fn_prev) /\ fn_out = None
    /\ fn_out' = Some(convert_dir_name_to_path(Unwrap(fn_prev)))
    /\ UNCHANGED <<fn_in, fn_prev>>

PathInit ==
    /\ \E path \in RoundTripPaths : fn_in = Some(path)
    /\ fn_out = None /\ fn_prev = None
    /\ RefreshUnused /\ PollUnused /\ DedupeUnused /\ StatusUnused /\ LockUnused

PathNext ==
    \/ EncodePath /\ UNCHANGED <<refreshVars, pollVars, dedupeVars, statusVars, lockVars>>
    \/ DecodeName /\ UNCHANGED <<refreshVars, pollVars, dedupeVars, statusVars, lockVars>>

SpecPath == PathInit /\ [][PathNext]_vars

\* C20: for an absolute path without a hidden-folder segment, decoding the
\* store name of the path gives the path back.
C20_RoundTrip ==
    (IsSome(fn_out) /\ NoHiddenSegment(Unwrap(fn_in))) => Unwrap(fn_out) = Unwrap(fn_in)

(***************************************************************************)
(* 19. One call of convert_dir_name_to_path on a store directory name.     *)
(* The names of the tests are written with one element per word.           *)
(***************************************************************************)
MaxNameLen == 6
NameAlphabet == {"-", "a", "Projects"}
NameWorktree ==
    <<"-", "Users", "-", "ozan", "-", "Projects", "-", "app", "-", "-", "rsworktree",
      "-", "feature">>
NameTwoHidden ==
    <<"-", "Users", "-", "ozan", "-", "Projects", "-", "myproject", "-", "-", "hidden",
      "-", "-", "subfolder">>
NameUnity == <<"-", "Users", "-", "ozan", "-", "UnityProjects", "-", "my", "-", "game">>
DecodeNames ==
    {<<"-">> \o r : r \in UNION {[1..n -> NameAlphabet] : n \in 0..MaxNameLen}}
    \cup {NameWorktree, NameTwoHidden, NameUnity}

DecodeCall ==
    /\ IsSome(fn_in) /\ fn_out = None
    /\ fn_out' = Some(convert_dir_name_to_path(Unwrap(fn_in)))
    /\ UNCHANGED <<fn_in, fn_prev>>

DecodeInit ==
    /\ \E dir_name \in DecodeNames : fn_in = Some(dir_name)
    /\ fn_out = None /\ fn_prev = None
    /\ RefreshUnused /\ PollUnused /\ DedupeUnused /\ StatusUnused /\ LockUnused

DecodeNext == DecodeCall /\ UNCHANGED <<refreshVars, pollVars, dedupeVars, statusVars, lockVars>>

SpecDecode == DecodeInit /\ [][DecodeNext]_vars

\* The claimed decoding, character by character.  s is the name without its
\* leading dash; p is the place of the first Projects or UnityProjects part.
ProjectsAt(s, p) ==
    /\ p \in 1..Len(s)
    /\ s[p] \in {"Projects", "UnityProjects"}
    /\ p > 1 => s[p - 1] = "-"
    /\ p < Len(s) => s[p + 1] = "-"

\* From the first double dash on: a double dash is "/." and a dash is "/".
RECURSIVE HiddenText(_, _)
HiddenText(s, i) ==
    IF i > Len(s) THEN << >>
    ELSE IF s[i] = "-" /\ i < Len(s) /\ s[i + 1] = "-"
    THEN <<"/", ".">> \o HiddenText(s, i + 2)
    ELSE IF s[i] = "-" THEN <<"/">> \o HiddenText(s, i + 1)
    ELSE <<s[i]>> \o HiddenText(s, i + 1)

\* tail is the text after the Projects part: its first dash is a separator,
\* the dashes up to the first double dash stay in the project name.
ClaimedTail(tail) ==
    LET doubles == {i \in 1..(Len(tail) - 1) : tail[i] = "-" /\ tail[i + 1] = "-"}
        d == IF doubles = {} THEN Len(tail) + 1
             ELSE CHOOSE i \in doubles : \A j \in doubles : i <= j
        before == SubSeq(tail, 1, d - 1)
    IN  (IF before = << >> THEN << >> ELSE <<"/">> \o Tail(before))
        \o HiddenText(SubSeq(tail, d, Len(tail)), 1)

ClaimedDecode(s, p) ==
    <<"/">> \o [i \in 1..p |-> IF s[i] = "-" THEN "/" ELSE s[i]]
    \o ClaimedTail(SubSeq(s, p + 1, Len(s)))

\* A name as the encoding writes it: no dash at the end, no three dashes in
\* a row, and no empty part before the Projects part.
WellFormedName(s, p) ==
    /\ s[Len(s)] # "-"
    /\ \A i \in 1..(Len(s) - 2) : ~(s[i] = "-" /\ s[i + 1] = "-" /\ s[i + 2] = "-")
    /\ \A i \in 1..(p - 1) : ~(s[i] = "-" /\ s[i + 1] = "-")
    /\ s[1] # "-"

\* C21: a directory name with a Projects or UnityProjects part decodes to
\* the parts up to that part as path segments, then the project name with
\* its single dashes kept up to the first double dash, then a dot-prefixed
\* segment at every double dash and a new segment at every later dash.
C21_DecodeProjects ==
    IsSome(fn_out) =>
        LET s == Tail(Unwrap(fn_in))
        IN  \A p \in 1..Len(s) :
                (ProjectsAt(s, p) /\ (\A q \in 1..(p - 1) : ~ProjectsAt(s, q))
                    /\ WellFormedName(s, p))
                => Unwrap(fn_out) = ClaimedDecode(s, p)

\* C21 witness: the worktree name of the scenario and its decoded path.
C21_Witness ==
    /\ fn_in = Some(NameWorktree)
    /\ fn_out = Some(<<"/", "Users", "/", "ozan", "/", "Projects", "/", "app", "/", ".",
                       "rsworktree", "/", "feature">>)

(***************************************************************************)
(* 20. The loop of get_sessions_internal over the processes that share one *)
(* matched project directory.                                              *)
(***************************************************************************)
MaxDirFiles == 3
MaxSharing == 3
AssignPaths == [k \in 1..MaxDirFiles |-> "f" \o ToString(k)]
AssignModified == {StatusNow - 1, StatusNow - 20}

\* The file at place k of the directory, in read_dir order.
AssignFilesAt(k) ==
    {ClaudeFile(AssignPaths[k], sid, Some("assistant"), FALSE, modified, Some(modified),
                Some("m"), subagent) :
        sid \in {None, Some("s1"), Some("s2")}, modified \in AssignModified,
        subagent \in BOOLEAN}

\* The directories of exactly n files, and the inputs with up to max_files
\* files.
RECURSIVE AssignDirs(_)
AssignDirs(n) ==
    IF n = 0 THEN {<< >>}
    ELSE {Append(entries, file) : entries \in AssignDirs(n - 1), file \in AssignFilesAt(n)}

AssignInputs(max_files) ==
    [entries : UNION {AssignDirs(n) : n \in 0..max_files}, sharing : 1..MaxSharing]

\* The loop `for (index, process) in matching_processes.iter().enumerate()`:
\* per process its pid, the primary file of its index and the session.
AssignCall ==
    /\ IsSome(fn_in) /\ fn_out = None
    /\ LET project_dir == [name |-> convert_path_to_dir_name(PathAB),
                           entries |-> Unwrap(fn_in).entries]
           jsonl_files == get_recently_active_jsonl_files(project_dir)
       IN  fn_out' = Some([jsonl_files |-> jsonl_files,
               assigned |-> [n \in 1..Unwrap(fn_in).sharing |->
                   [pid |-> n,
                    primary |-> IF n <= Len(jsonl_files) THEN Some(jsonl_files[n].path) ELSE None,
                    session |-> find_session_for_process(jsonl_files, project_dir, PathAB,
                                    [CpuProcess(0) EXCEPT !.pid = n], n - 1, "Claude",
                                    StatusNow)]]])
    /\ UNCHANGED <<fn_in, fn_prev>>

AssignInit ==
    /\ \E input \in AssignInputs(MaxDirFiles) : fn_in = Some(input)
    /\ fn_out = None /\ fn_prev = None
    /\ RefreshUnused /\ PollUnused /\ DedupeUnused /\ StatusUnused /\ LockUnused

AssignNext == AssignCall /\ UNCHANGED <<refreshVars, pollVars, dedupeVars, statusVars, lockVars>>

SpecAssign == AssignInit /\ [][AssignNext]_vars

\* The list of files holds the non-sub-agent files of the directory, newest
\* modification first, and a session of the Nth process has the id of the
\* Nth file of the list.
C22_NthNewestFile ==
    IsSome(fn_out) =>
        LET out == Unwrap(fn_out)
            entries == Unwrap(fn_in).entries
        IN  /\ {out.jsonl_files[i].path : i \in 1..Len(out.jsonl_files)}
                  = {entries[k].path : k \in {j \in 1..Len(entries) : ~entries[j].subagent}}
            /\ \A i \in 1..(Len(out.jsonl_files) - 1) :
                   out.jsonl_files[i].modified >= out.jsonl_files[i + 1].modified
            /\ \A n \in 1..Len(out.assigned) :
                   IsSome(out.assigned[n].session) =>
                       /\ n <= Len(out.jsonl_files)
                       /\ Some(Unwrap(out.assigned[n].session).id) = out.jsonl_files[n].session_id

\* No file is the primary file of two processes.
C22_NoFileTwice ==
    IsSome(fn_out) =>
        LET assigned == Unwrap(fn_out).assigned
        IN  \A n1, n2 \in 1..Len(assigned) :
                (n1 # n2 /\ IsSome(assigned[n1].primary))
                => assigned[n1].primary # assigned[n2].primary

\* Two processes on a directory of two session files: two sessions result
\* only with distinct ids.
C22_DistinctIds ==
    IsSome(fn_out) =>
        LET out == Unwrap(fn_out)
        IN  (/\ Len(out.assigned) = 2 /\ Len(out.jsonl_files) = 2
             /\ IsSome(out.assigned[1].session) /\ IsSome(out.assigned[2].session))
            => Unwrap(out.assigned[1].session).id # Unwrap(out.assigned[2].session).id

\* C22: within one matched directory the Nth process is assigned the Nth
\* most recently modified non-sub-agent file, no file is the primary file of
\* two processes, and two processes sharing a directory of two session files
\* give two sessions with distinct ids.
C22_NthFileDistinct == C22_NthNewestFile /\ C22_NoFileTwice /\ C22_DistinctIds

(***************************************************************************)
(* 21. One call of get_codex_sessions on a store and a list of processes.  *)
(***************************************************************************)
MaxCodexProcs == 3
CodexFileC4 ==
    [path |-> "c4", cwd |-> Some(PathAB), modified |-> PollNow - 30,
     last_role |-> Some("user"), last_message |-> Some("k4"), last_activity_at |-> None]
CodexStores ==
    {<< >>, <<CodexSessionFiles[1]>>, CodexSessionFiles, <<CodexSessionFiles[1], CodexFileC4>>,
     <<CodexFileC4, CodexSessionFiles[2], CodexSessionFiles[1]>>}

\* The process at place i of the input; its open session file, when the
\* filter found one, is c3.
CodexProcessesAt(i) ==
    [agent : {"Codex"}, pid : {i}, cwd : {None, Some(RootPath), Some(PathAB)},
     cpu_usage : {0, 16}, active_session_file : {None, Some("c3")}]

\* The lists of exactly n processes, and the inputs with 1 to max_procs
\* processes.
RECURSIVE CodexProcessLists(_)
CodexProcessLists(n) ==
    IF n = 0 THEN {<< >>}
    ELSE {Append(list, process) :
            list \in CodexProcessLists(n - 1), process \in CodexProcessesAt(n)}

CodexInputs(max_procs) ==
    LET lists == UNION {CodexProcessLists(n) : n \in 1..max_procs}
    IN  [codex_dir_exists : {TRUE}, session_files : CodexStores, processes : lists]
        \cup [codex_dir_exists : {FALSE}, session_files : {<< >>}, processes : lists]

\* file_name() of a path: the text after the last slash, if there is any.
FileName(path) ==
    LET slashes == {i \in 1..Len(path) : path[i] = "/"}
        last == IF slashes = {} THEN 0 ELSE CHOOSE i \in slashes : \A j \in slashes : j <= i
    IN  IF last = Len(path) THEN None ELSE Some(SubSeq(path, last + 1, Len(path)))

\* project_name of the synthesized session.
fallback_project_name(process) ==
    IF IsSome(process.cwd) /\ IsSome(FileName(Unwrap(process.cwd)))
    THEN FileName(Unwrap(process.cwd))
    ELSE Some(<<"Unknown">>)

CodexCall ==
    /\ IsSome(fn_in) /\ fn_out = None
    /\ LET input == Unwrap(fn_in)
       IN  fn_out' = Some([sessions |-> codex_sessions_in(input.codex_dir_exists,
                                            input.session_files, input.processes, PollNow),
                           fallback_names |-> [i \in 1..Len(input.processes) |->
                                                  fallback_project_name(input.processes[i])]])
    /\ UNCHANGED <<fn_in, fn_prev>>

CodexInit ==
    /\ \E input \in CodexInputs(MaxCodexProcs) : fn_in = Some(input)
    /\ fn_out = None /\ fn_prev = None
    /\ RefreshUnused /\ PollUnused /\ DedupeUnused /\ StatusUnused /\ LockUnused

CodexNext == CodexCall /\ UNCHANGED <<refreshVars, pollVars, dedupeVars, statusVars, lockVars>>

SpecCodex == CodexInit /\ [][CodexNext]_vars

\* The paths of the store, and those given to the processes before place i.
CodexPaths == {Unwrap(fn_in).session_files[k].path : k \in 1..Len(Unwrap(fn_in).session_files)}
CodexUsedBefore(i) == {Unwrap(fn_out).sessions[j].id : j \in 1..(i - 1)} \cap CodexPaths
CodexFileOf(path) ==
    CHOOSE f \in SeqToSet(Unwrap(fn_in).session_files) : f.path = path

\* The newest of the files of `paths`, if any (modification times differ).
CodexNewest(paths) ==
    IF paths = {} THEN None
    ELSE Some(CHOOSE x \in paths :
                 \A y \in paths : CodexFileOf(y).modified <= CodexFileOf(x).modified)

\* What the claim gives a process without a resolvable open file: the newest
\* unused file of its cwd, else the newest unused file.
CodexByCwdThenNewest(i) ==
    LET process == Unwrap(fn_in).processes[i]
        unused == CodexPaths \ CodexUsedBefore(i)
        same_cwd == {x \in unused : IsSome(process.cwd) /\ CodexFileOf(x).cwd = process.cwd}
    IN  IF same_cwd # {} THEN CodexNewest(same_cwd) ELSE CodexNewest(unused)

\* Steps (2) and (3) and the single use of a file, for every process.
C23_CwdThenNewest ==
    (IsSome(fn_out) /\ Unwrap(fn_in).codex_dir_exists) =>
        LET sessions == Unwrap(fn_out).sessions
        IN  /\ \A i \in 1..Len(sessions) :
                 IsSome(CodexByCwdThenNewest(i))
                 => sessions[i].id = Unwrap(CodexByCwdThenNewest(i))
            /\ \A i, j \in 1..Len(sessions) :
                 (i # j /\ sessions[i].id \in CodexPaths) => sessions[i].id # sessions[j].id

\* C23: a Codex process is given (1) the file it has open when that file is
\* in the store, else (2) the newest unused file of its cwd, else (3) the
\* newest unused file; no file is given to two processes.
C23_OpenFileFirst ==
    (IsSome(fn_out) /\ Unwrap(fn_in).codex_dir_exists) =>
        LET sessions == Unwrap(fn_out).sessions
            processes == Unwrap(fn_in).processes
        IN  /\ \A i \in 1..Len(sessions) :
                 IF /\ IsSome(processes[i].active_session_file)
                    /\ Unwrap(processes[i].active_session_file) \in CodexPaths
                 THEN sessions[i].id = Unwrap(processes[i].active_session_file)
                 ELSE IsSome(CodexByCwdThenNewest(i))
                      => sessions[i].id = Unwrap(CodexByCwdThenNewest(i))
            /\ \A i, j \in 1..Len(sessions) :
                 (i # j /\ sessions[i].id \in CodexPaths) => sessions[i].id # sessions[j].id

\* C24: when the sessions directory exists the result has one session per
\* process, in input order; a process for which no unused file is left gets
\* the session codex-<pid>, whose path is its cwd or "/", whose name is the
\* last folder of the cwd or Unknown, and whose status is Processing when
\* the CPU usage is above 15 and Stale otherwise.
C24_OnePerProcess ==
    (IsSome(fn_out) /\ Unwrap(fn_in).codex_dir_exists) =>
        LET sessions == Unwrap(fn_out).sessions
            processes == Unwrap(fn_in).processes
        IN  /\ Len(sessions) = Len(processes)
            /\ \A i \in 1..Len(processes) :
                 /\ sessions[i].pid = processes[i].pid
                 /\ sessions[i].agent_type = "Codex"
                 /\ (CodexPaths \ CodexUsedBefore(i) = {}) =>
                      /\ sessions[i].id = "codex-" \o ToString(processes[i].pid)
                      /\ sessions[i].project_path =
                            (IF IsSome(processes[i].cwd) THEN Unwrap(processes[i].cwd)
                             ELSE <<"/">>)
                      /\ ~IsSome(processes[i].cwd)
                            => Unwrap(fn_out).fallback_names[i] = Some(<<"Unknown">>)
                      /\ processes[i].cwd = Some(PathAB)
                            => Unwrap(fn_out).fallback_names[i] = Some(<<"b">>)
                      /\ sessions[i].status =
                            (IF processes[i].cpu_usage > 15 THEN "Processing" ELSE "Stale")
                      /\ sessions[i].last_message = None
                 /\ (CodexPaths \ CodexUsedBefore(i) # {}) => sessions[i].id \in CodexPaths

\* C24 witness: one file and two processes; the second, busy and without a
\* cwd, gets the synthesized session at "/" with status Processing.
C24_Witness ==
    /\ IsSome(fn_out)
    /\ Len(Unwrap(fn_in).session_files) = 1
    /\ Len(Unwrap(fn_in).processes) = 2
    /\ Unwrap(fn_in).processes[2].cwd = None
    /\ Unwrap(fn_out).sessions[1].id = "c1"
    /\ Unwrap(fn_out).sessions[2].id = "codex-2"
    /\ Unwrap(fn_out).sessions[2].status = "Processing"
    /\ Unwrap(fn_out).sessions[2].project_path = <<"/">>


(***************************************************************************)
(* 22. The three process-wide mutexes under concurrent callers.            *)
(* process/system.rs: SYSTEM and LAST_PROCESS_REFRESH_AT;                  *)
(* session/parser/sessions.rs: PREVIOUS_STATUS.  A thread calling          *)
(* get_all_sessions runs the three detectors one after the other; what it  *)
(* does to the mutexes and when it waits for lsof is the program below,    *)
(* one step per lock(), guard drop, snapshot refresh or lsof invocation.   *)
(***************************************************************************)
MaxThreads == 2
MaxCalls == 2
MaxAgentProcs == 1
MaxStatusUpdates == 1

LockThreads == 1..MaxThreads
Mutexes == {"SYSTEM", "LAST_PROCESS_REFRESH_AT", "PREVIOUS_STATUS"}

RECURSIVE Repeat(_, _)
Repeat(steps, n) == IF n = 0 THEN << >> ELSE steps \o Repeat(steps, n - 1)

\* refresh_processes: the timestamp guard lives in the inner block only; the
\* refresh itself follows it when should_refresh is true (decided in UnlockStep)
refresh_processes_locking == <<"lock_last", "unlock_last", "refresh">>

\* find_claude_processes: get_system, refresh_processes, two passes over the
\* snapshot, return (the guard is dropped)
find_claude_processes_last_first ==
    <<"lock_last", "lock_system", "unlock_last", "refresh", "unlock_system">>
find_claude_processes_locking ==
    <<"lock_system">> \o refresh_processes_locking \o <<"unlock_system">>

\* ClaudeDetector::find_processes: lsof once per process found, after
\* find_claude_processes has returned
claude_find_processes_locking(n) ==
    find_claude_processes_locking \o Repeat(<<"lsof">>, n)

\* get_sessions_internal: PREVIOUS_STATUS is locked and dropped once per
\* session built
get_sessions_internal_locking(k) ==
    Repeat(<<"lock_previous", "unlock_previous">>, k)

\* find_codex_processes: lsof inside the loop over system.processes()
find_codex_processes_locking(n) ==
    <<"lock_system">> \o refresh_processes_locking
        \o Repeat(<<"lsof">>, n) \o <<"unlock_system">>

\* find_opencode_processes: lsof inside the loop over system.processes()
find_opencode_processes_locking(n) ==
    <<"lock_system">> \o refresh_processes_locking
        \o Repeat(<<"lsof">>, n) \o <<"unlock_system">>

\* one detector of get_all_sessions: find_processes, then find_sessions
DetectorProgram(detector, n, k) ==
    CASE detector = 1 -> claude_find_processes_locking(n) \o get_sessions_internal_locking(k)
      [] detector = 2 -> find_codex_processes_locking(n)
      [] detector = 3 -> find_opencode_processes_locking(n)

DetectorPrograms(detector) ==
    {DetectorProgram(detector, n, k) : n \in 0..MaxAgentProcs, k \in 0..MaxStatusUpdates}

MutexOf(step) ==
    CASE step \in {"lock_system", "unlock_system"} -> "SYSTEM"
      [] step \in {"lock_last", "unlock_last"} -> "LAST_PROCESS_REFRESH_AT"
      [] step \in {"lock_previous", "unlock_previous"} -> "PREVIOUS_STATUS"

IsLock(step) == step \in {"lock_system", "lock_last", "lock_previous"}
IsUnlock(step) == step \in {"unlock_system", "unlock_last", "unlock_previous"}

ThreadIdle == [calls |-> 0, detector |-> 0, steps |-> << >>, external |-> FALSE]
InCall(t) == threads[t].detector # 0
AtStep(t, step) == InCall(t) /\ threads[t].steps # << >> /\ Head(threads[t].steps) = step
Holds(t, mutex) == holder[mutex] = t
HeldBy(t) == {mutex \in Mutexes : holder[mutex] = t}

\* a caller enters get_all_sessions and its first detector
BeginCall(t) ==
    /\ ~InCall(t)
    /\ threads[t].calls < MaxCalls
    /\ \E program \in DetectorPrograms(1) :
          threads' = [threads EXCEPT ![t] = [calls |-> @.calls + 1, detector |-> 1,
                                             steps |-> program, external |-> FALSE]]
    /\ UNCHANGED holder

\* the loop of get_all_sessions moves to the next detector
NextDetector(t) ==
    /\ threads[t].detector \in {1, 2}
    /\ threads[t].steps = << >>
    /\ \E program \in DetectorPrograms(threads[t].detector + 1) :
          threads' = [threads EXCEPT ![t].detector = @ + 1, ![t].steps = program]
    /\ UNCHANGED holder

\* get_all_sessions returns its SessionsResponse
FinishCall(t) ==
    /\ threads[t].detector = 3
    /\ threads[t].steps = << >>
    /\ threads' = [threads EXCEPT ![t].detector = 0]
    /\ UNCHANGED holder

\* Mutex::lock: returns once no thread holds the guard
LockStep(t) ==
    /\ InCall(t) /\ threads[t].steps # << >>
    /\ IsLock(Head(threads[t].steps))
    /\ holder[MutexOf(Head(threads[t].steps))] = 0
    /\ holder' = [holder EXCEPT ![MutexOf(Head(threads[t].steps))] = t]
    /\ threads' = [threads EXCEPT ![t].steps = Tail(@)]

\* the guard goes out of scope; leaving the block of refresh_processes also
\* settles should_refresh, and the refresh is skipped when it is false
UnlockStep(t) ==
    /\ InCall(t) /\ threads[t].steps # << >>
    /\ IsUnlock(Head(threads[t].steps))
    /\ holder' = [holder EXCEPT ![MutexOf(Head(threads[t].steps))] = 0]
    /\ \E should_refresh \in BOOLEAN :
          threads' = [threads EXCEPT ![t].steps =
                         IF /\ Head(@) = "unlock_last"
                            /\ Len(@) > 1 /\ @[2] = "refresh"
                            /\ ~should_refresh
                         THEN Tail(Tail(@)) ELSE Tail(@)]

\* system.refresh_processes_specifics
RefreshStep(t) ==
    /\ AtStep(t, "refresh")
    /\ threads' = [threads EXCEPT ![t].steps = Tail(@)]
    /\ UNCHANGED holder

\* Command::new("lsof")...output(): the child is started and the thread waits
LsofStart(t) ==
    /\ AtStep(t, "lsof")
    /\ ~threads[t].external
    /\ threads' = [threads EXCEPT ![t].external = TRUE]
    /\ UNCHANGED holder

\* lsof has exited and its output is read
LsofReturn(t) ==
    /\ AtStep(t, "lsof")
    /\ threads[t].external
    /\ threads' = [threads EXCEPT ![t].external = FALSE, ![t].steps = Tail(@)]
    /\ UNCHANGED holder

LocksInit ==
    /\ holder = [mutex \in Mutexes |-> 0]
    /\ threads = [t \in LockThreads |-> ThreadIdle]
    /\ RefreshUnused /\ PollUnused /\ DedupeUnused /\ StatusUnused /\ CallUnused

ThreadStep(t) ==
    \/ BeginCall(t)
    \/ NextDetector(t)
    \/ FinishCall(t)
    \/ LockStep(t)
    \/ UnlockStep(t)
    \/ RefreshStep(t)
    \/ LsofStart(t)
    \/ LsofReturn(t)

LocksOthers == UNCHANGED <<refreshVars, pollVars, dedupeVars, statusVars, callVars>>

LocksNext ==
    \/ \E t \in LockThreads : BeginCall(t) /\ LocksOthers
    \/ \E t \in LockThreads : NextDetector(t) /\ LocksOthers
    \/ \E t \in LockThreads : FinishCall(t) /\ LocksOthers
    \/ \E t \in LockThreads : LockStep(t) /\ LocksOthers
    \/ \E t \in LockThreads : UnlockStep(t) /\ LocksOthers
    \/ \E t \in LockThreads : RefreshStep(t) /\ LocksOthers
    \/ \E t \in LockThreads : LsofStart(t) /\ LocksOthers
    \/ \E t \in LockThreads : LsofReturn(t) /\ LocksOthers

SpecLocks == LocksInit /\ [][LocksNext]_vars

\* every thread that can take a step eventually takes one: the scheduler runs
\* runnable threads and lsof terminates
SpecLocksFair ==
    LocksInit /\ [][LocksNext]_vars
        /\ \A t \in LockThreads : WF_vars(ThreadStep(t) /\ LocksOthers)

\* C25: no thread holds one of the three mutexes while its lsof child runs.
C25_NoLockAcrossLsof ==
    \A t \in LockThreads : threads[t].external => HeldBy(t) = {}

\* the Claude filter does release the snapshot before lsof: the part of C25
\* that holds
C25_ClaudeLsofUnlocked ==
    \A t \in LockThreads :
        (threads[t].external /\ threads[t].detector = 1) => HeldBy(t) = {}

\* a thread waits for a mutex that is not free
Blocked(t) ==
    /\ InCall(t) /\ threads[t].steps # << >>
    /\ IsLock(Head(threads[t].steps))
    /\ holder[MutexOf(Head(threads[t].steps))] # 0

\* some thread waits, and every thread either waits or is outside a call
Deadlocked ==
    /\ \E t \in LockThreads : Blocked(t)
    /\ \A t \in LockThreads : Blocked(t) \/ ~InCall(t)

LockDiscipline ==
    \A t \in LockThreads :
        /\ Holds(t, "LAST_PROCESS_REFRESH_AT") => Holds(t, "SYSTEM")
        /\ AtStep(t, "refresh") =>
              Holds(t, "SYSTEM") /\ ~Holds(t, "LAST_PROCESS_REFRESH_AT")
        /\ Holds(t, "PREVIOUS_STATUS") => HeldBy(t) = {"PREVIOUS_STATUS"}
        /\ AtStep(t, "lock_previous") => HeldBy(t) = {}
        /\ ~InCall(t) => HeldBy(t) = {}

\* C30: the timestamp mutex is only held inside the snapshot mutex and not
\* during the refresh, the previous-status mutex is only taken and held with
\* no other mutex, a thread outside a call holds nothing, no state is a
\* deadlock, and every call that has begun returns.
C30_NoDeadlock ==
    /\ [](LockDiscipline /\ ~Deadlocked)
    /\ \A t \in LockThreads : InCall(t) ~> ~InCall(t)

\* two calls overlap: one waits for the snapshot mutex while the other holds
\* it across lsof
C30_Witness ==
    \E t, u \in LockThreads :
        /\ t # u
        /\ AtStep(t, "lock_system") /\ Holds(u, "SYSTEM")
        /\ threads[u].external
        /\ threads[u].calls = MaxCalls


(***************************************************************************)
(* 23. Which store directories the Claude detector reads (section 12's     *)
(* poll): the sessions of all_sessions against the snapshot and the store. *)
(***************************************************************************)
ClaudeSessions == SelectSeq(all_sessions, LAMBDA s : s.agent_type = "Claude")

StoreDirs == UNION {ClaudeProjectsDirs[r].projects : r \in 1..Len(ClaudeProjectsDirs)}

\* the directory holds a session file (not a sub-agent file) of this session id
HoldsSession(dir, id) ==
    \E i \in 1..Len(dir.entries) :
        ~dir.entries[i].subagent /\ dir.entries[i].session_id = Some(id)

\* C26: every Claude session belongs to a live Claude process with a cwd, it
\* was read from a store directory named convert_path_to_dir_name(cwd) or that
\* name with '_' replaced by '-', and its project_path is that cwd, whatever
\* the directory name decodes to.
C26_MatchByEncodedCwd ==
    \A i \in 1..Len(ClaudeSessions) :
        LET session == ClaudeSessions[i]
            slot == procs[session.pid]
        IN  /\ IsSome(slot)
            /\ Unwrap(slot).agent = "Claude"
            /\ IsSome(Unwrap(slot).cwd)
            /\ session.project_path = Unwrap(Unwrap(slot).cwd)
            /\ \E dir \in StoreDirs :
                  /\ HoldsSession(dir, session.id)
                  /\ \/ dir.name = convert_path_to_dir_name(Unwrap(Unwrap(slot).cwd))
                     \/ dir.name = ReplaceUnderscore(
                                      convert_path_to_dir_name(Unwrap(Unwrap(slot).cwd)))

\* a session of a process in /a-b, read from the directory -a-b, which decodes
\* to /a/b; and a session of a process in /a_b next to it
C26_Witness ==
    /\ \E i \in 1..Len(ClaudeSessions) :
          /\ ClaudeSessions[i].project_path = PathADashB
          /\ convert_dir_name_to_path(convert_path_to_dir_name(PathADashB)) # PathADashB
    /\ \E i \in 1..Len(ClaudeSessions) : ClaudeSessions[i].project_path = PathAUnderB


(***************************************************************************)
(* 24. PREVIOUS_STATUS across the polls of section 12.                     *)
(***************************************************************************)
\* the map loses no entry
C27_OnlyGrows ==
    [][DOMAIN previous_status \subseteq DOMAIN previous_status']_vars

\* the insert before update k for the same id, 0 when there is none
UpdateBefore(k) ==
    LET earlier == {j \in 1..(k - 1) : status_updates[j].id = status_updates[k].id}
    IN  IF earlier = {} THEN 0 ELSE CHOOSE j \in earlier : \A i \in earlier : i <= j

\* a transition is logged exactly when the id had an entry with another status
C27_LoggedOnChange ==
    \A k \in 1..Len(status_updates) :
        status_updates[k].warned <=>
            /\ UpdateBefore(k) # 0
            /\ status_updates[UpdateBefore(k)].status # status_updates[k].status

\* the entry of every session the Claude detector returned is its status
C27_EntryIsReturnedStatus ==
    \A i \in 1..Len(ClaudeSessions) :
        /\ ClaudeSessions[i].id \in DOMAIN previous_status
        /\ previous_status[ClaudeSessions[i].id] = ClaudeSessions[i].status

\* C27: after a Claude poll the entry of each returned session id equals the
\* status returned for that session, and a transition is logged exactly when
\* the id already had an entry with a different status.
C27_MapTracksReturned == C27_EntryIsReturnedStatus /\ C27_LoggedOnChange


(***************************************************************************)
(* 25. One call of find_session_for_process on a project directory of      *)
(* three session files of one or two sessions, for the first, the second   *)
(* or the third process of the directory.                                  *)
(***************************************************************************)
OtherKinds == {"tool_use", "user", "text"}

\* a session file whose last line is an assistant tool_use, a user message or
\* an assistant text of msg_age seconds ago, modified age seconds ago
OtherFile(path, sid, kind, age, msg_age) ==
    ClaudeFile(path, Some(sid),
               IF kind = "user" THEN Some("user") ELSE Some("assistant"),
               kind = "tool_use", StatusNow - age, Some(StatusNow - msg_age),
               Some("m"), FALSE)

OtherDirs ==
    {<<OtherFile("f1", "s1", k1, a1, m1), OtherFile("f2", s2, k2, a2, m2),
       OtherFile("f3", s3, k3, a3, 5)>> :
        k1 \in OtherKinds, a1 \in {1, 9, 10}, m1 \in {5, 400},
        s2 \in {"s1", "s2"}, k2 \in OtherKinds, a2 \in {2, 9, 10}, m2 \in {5, 400},
        s3 \in {"s1", "s2"}, k3 \in {"user", "text"}, a3 \in {1, 10}}

OtherInputs == [entries : OtherDirs, index : {0, 1, 2}, cpu_usage : {0}]

\* find_session_for_process for the process at the index of the input; the
\* status is recorded as parsed from the primary file and as it leaves the
\* loop over the other files
OtherCall ==
    /\ IsSome(fn_in) /\ fn_out = None
    /\ LET input == Unwrap(fn_in)
           project_dir == [name |-> convert_path_to_dir_name(PathAB), entries |-> input.entries]
           jsonl_files == get_recently_active_jsonl_files(project_dir)
           process == CpuProcess(input.cpu_usage)
           primary == jsonl_files[input.index + 1]
           parsed == Unwrap(parse_session_file(primary, PathAB, 1, input.cpu_usage,
                                               "Claude", StatusNow))
           leaving == MoreActiveStatus(parsed, jsonl_files, 1, primary, PathAB,
                                       process, "Claude", StatusNow)
           session == find_session_for_process(jsonl_files, project_dir, PathAB, process,
                                               input.index, "Claude", StatusNow)
       IN  fn_out' = Some([jsonl_files |-> jsonl_files, primary |-> primary,
                           parsed |-> parsed, leaving |-> leaving,
                           session |-> Unwrap(session)])
    /\ UNCHANGED <<fn_in, fn_prev>>

OtherInit ==
    /\ \E input \in OtherInputs : fn_in = Some(input)
    /\ fn_out = None /\ fn_prev = None
    /\ RefreshUnused /\ PollUnused /\ DedupeUnused /\ StatusUnused /\ LockUnused

OtherNext == OtherCall /\ UNCHANGED <<refreshVars, pollVars, dedupeVars, statusVars, lockVars>>

SpecOther == OtherInit /\ [][OtherNext]_vars

\* the status parse_session_file gives a file of the directory
FileStatus(file) ==
    Unwrap(parse_session_file(file, PathAB, 1, Unwrap(fn_in).cpu_usage,
                              "Claude", StatusNow)).status

\* the files that may give their status: not the primary file, modified less
\* than 10 s ago, of the session of the primary file
MayReplace(out) ==
    {i \in 1..Len(out.jsonl_files) :
        /\ out.jsonl_files[i].path # out.primary.path
        /\ StatusNow - out.jsonl_files[i].modified < 10
        /\ out.jsonl_files[i].session_id = out.primary.session_id}

\* the outcome of the loop when the files of other sessions are not there
WithoutOtherSessions(out) ==
    MoreActiveStatus(out.parsed,
                     SelectSeq(out.jsonl_files,
                               LAMBDA f : f.session_id = out.primary.session_id),
                     1, out.primary, PathAB, CpuProcess(Unwrap(fn_in).cpu_usage),
                     "Claude", StatusNow).status

\* C28: the status that leaves the loop over the other files is the status
\* of the primary file, or the status of a file of the same session modified
\* less than 10 s ago which is strictly more active than the primary's; it is
\* never less active than the primary's; it is the same with the files of
\* other sessions removed; and nothing but the status and the sub-agent count
\* differs from the parsed session.
C28_OtherFilePromotion ==
    IsSome(fn_out) =>
        LET out == Unwrap(fn_out)
        IN  /\ out.leaving.status # out.parsed.status =>
                  \E i \in MayReplace(out) :
                      /\ FileStatus(out.jsonl_files[i]) = out.leaving.status
                      /\ status_sort_priority(out.leaving.status)
                            < status_sort_priority(out.parsed.status)
            /\ status_sort_priority(out.leaving.status)
                  <= status_sort_priority(out.parsed.status)
            /\ out.leaving.status = WithoutOtherSessions(out)
            /\ out.leaving = [out.parsed EXCEPT !.status = out.leaving.status]
            /\ out.session.id = out.parsed.id

\* the primary file shows Waiting; a file of another session written 1 s ago
\* shows Thinking and is passed over, a file of the same session written 2 s
\* ago shows Processing and gives its status
C28_Witness ==
    /\ IsSome(fn_out)
    /\ Unwrap(fn_out).parsed.status = "Waiting"
    /\ Unwrap(fn_out).leaving.status = "Processing"
    /\ \E i \in 1..Len(Unwrap(fn_out).jsonl_files) :
          LET file == Unwrap(fn_out).jsonl_files[i]
          IN  /\ file.session_id # Unwrap(fn_out).primary.session_id
              /\ StatusNow - file.modified < 10
              /\ FileStatus(file) = "Thinking"


(***************************************************************************)
(* 26. One call of get_opencode_sessions on the storage of section 7 and a *)
(* list of OpenCode processes.                                             *)
(***************************************************************************)
MaxOpenCodeProcs == 3

\* the process with pid i: no cwd or one of four, and no open session file,
\* the session file o2 or a file that does not load
OpenCodeProcessesAt(i) ==
    [agent : {"OpenCode"}, pid : {i},
     cwd : {None, Some(PathA), Some(PathAB), Some(PathAUnderB), Some(PathX)},
     cpu_usage : {0},
     active_session_file : {None, Some("o2"), Some("gone")}]

RECURSIVE OpenCodeProcessLists(_)
OpenCodeProcessLists(n) ==
    IF n = 0 THEN {<< >>}
    ELSE {Append(list, process) :
            list \in OpenCodeProcessLists(n - 1), process \in OpenCodeProcessesAt(n)}

OpenCodeInputs(max_procs) == UNION {OpenCodeProcessLists(n) : n \in 1..max_procs}

\* get_opencode_sessions; cwd_to_process is iterated in some order
OpenCodeCall ==
    /\ IsSome(fn_in) /\ fn_out = None
    /\ LET processes == Unwrap(fn_in)
           by_file == PidsOf(OpenFileSessions(processes, PollNow))
       IN  \E map_order \in Orders(DOMAIN CwdToProcess(processes, by_file)) :
             fn_out' = Some(get_opencode_sessions(processes, map_order, PollNow))
    /\ UNCHANGED <<fn_in, fn_prev>>

OpenCodeInit ==
    /\ \E input \in OpenCodeInputs(MaxOpenCodeProcs) : fn_in = Some(input)
    /\ fn_out = None /\ fn_prev = None
    /\ RefreshUnused /\ PollUnused /\ DedupeUnused /\ StatusUnused /\ LockUnused

OpenCodeNext ==
    OpenCodeCall /\ UNCHANGED <<refreshVars, pollVars, dedupeVars, statusVars, lockVars>>

SpecOpenCode == OpenCodeInit /\ [][OpenCodeNext]_vars

\* the claim's reading of the storage and of the call
StoredSessions(project_id) ==
    {f \in SeqToSet(OpenCodeSessionFiles) : f.project_id = project_id}

MostRecent(files) == CHOOSE f \in files : \A g \in files : g.updated <= f.updated

OpenFileLoads(process) ==
    /\ IsSome(process.active_session_file)
    /\ \E f \in SeqToSet(OpenCodeSessionFiles) : f.id = Unwrap(process.active_session_file)

Under(cwd, dir) == cwd = dir \/ (Len(cwd) > Len(dir) /\ SubSeq(cwd, 1, Len(dir) + 1) = dir \o <<"/">>)

\* the processes a project may be matched to
ProjectCandidates(project) ==
    {process \in SeqToSet(Unwrap(fn_in)) :
        /\ ~OpenFileLoads(process)
        /\ IsSome(process.cwd)
        /\ \/ Under(Unwrap(process.cwd), project.worktree)
           \/ \E i \in 1..Len(project.sandboxes) : Under(Unwrap(process.cwd), project.sandboxes[i])}

NonGlobalProjects == {pr \in SeqToSet(OpenCodeProjects) : pr.id # "global"}

SessionsOut == Unwrap(fn_out)
SessionsOfPid(pid) == SelectSeq(SessionsOut, LAMBDA s : s.pid = pid)

\* the sessions a project contributed: not those of the open-file matches
ProjectSessionsOut(project) ==
    {i \in 1..Len(SessionsOut) :
        /\ \E f \in StoredSessions(project.id) : f.id = SessionsOut[i].id
        /\ \A process \in SeqToSet(Unwrap(fn_in)) :
              process.pid = SessionsOut[i].pid => ~OpenFileLoads(process)}

ProjectMatchedPids ==
    {SessionsOut[i].pid : i \in UNION {ProjectSessionsOut(pr) : pr \in NonGlobalProjects}}

GlobalMatches(cwd) == {f \in StoredSessions("global") : Under(cwd, f.directory)}

\* C29: a process whose open session file loads has exactly one session, the
\* one of that file; every non-global project with a candidate process among
\* the others contributes exactly one session, its most recently updated
\* one, for one of its candidates, and a project without candidate
\* contributes none; a process matched neither way that has a cwd gets the
\* most recently updated global session whose directory is its cwd or a
\* prefix of it, if there is one, and no other process gets a global session.
C29_MatchingOrder ==
    IsSome(fn_out) =>
        /\ \A process \in SeqToSet(Unwrap(fn_in)) :
              OpenFileLoads(process) =>
                  /\ Len(SessionsOfPid(process.pid)) = 1
                  /\ SessionsOfPid(process.pid)[1].id = Unwrap(process.active_session_file)
        /\ \A project \in NonGlobalProjects :
              IF ProjectCandidates(project) = {}
              THEN ProjectSessionsOut(project) = {}
              ELSE /\ Cardinality(ProjectSessionsOut(project)) = 1
                   /\ \A i \in ProjectSessionsOut(project) :
                         /\ SessionsOut[i].id = MostRecent(StoredSessions(project.id)).id
                         /\ \E process \in ProjectCandidates(project) :
                               process.pid = SessionsOut[i].pid
        /\ \A process \in SeqToSet(Unwrap(fn_in)) :
              LET global == SelectSeq(SessionsOfPid(process.pid),
                                LAMBDA s : \E f \in StoredSessions("global") : f.id = s.id)
              IN  IF /\ ~OpenFileLoads(process)
                     /\ process.pid \notin ProjectMatchedPids
                     /\ IsSome(process.cwd)
                     /\ GlobalMatches(Unwrap(process.cwd)) # {}
                  THEN /\ Len(global) = 1
                       /\ global[1].id = MostRecent(GlobalMatches(Unwrap(process.cwd))).id
                       /\ global[1].project_path = MostRecent(GlobalMatches(Unwrap(process.cwd))).directory
                  ELSE global = << >>

\* three processes: one matched by its open file o2, one in /a/b matched to
\* the project of /a with its session o1, and one in /a_b left to the global
\* sessions, of which the newest of that directory, o3, is taken
C29_Witness ==
    /\ IsSome(fn_out)
    /\ Len(SessionsOut) = 3
    /\ Len(Unwrap(fn_in)) = 3
    /\ \E i, j, k \in 1..3 :
          /\ OpenFileLoads(Unwrap(fn_in)[i]) /\ SessionsOut[1].pid = i
          /\ SessionsOut[2].id = "o1" /\ SessionsOut[2].pid = j
          /\ Unwrap(fn_in)[j].cwd = Some(PathA)
          /\ SessionsOut[3].id = "o3" /\ SessionsOut[3].pid = k
          /\ Unwrap(fn_in)[k].cwd = Some(PathAUnderB)

=============================================================================
